---------------------------- MODULE Spec2Model ----------------------------
(***************************************************************************)
(* A model of the matcha front-end and evaluator: the recursive-descent    *)
(* parser (parser.rs), the tree-walking interpreter (interpreter.rs) with  *)
(* its chained environments (environment.rs), and the scanner              *)
(* (scanner.rs).                                                           *)
(*                                                                         *)
(* Indices are 0-based as in the source; a Rust vector element v[i] is the *)
(* TLA+ sequence element v[i + 1].                                         *)
(***************************************************************************)
EXTENDS Integers, Sequences, FiniteSets, TLC

VARIABLES
    \* Parser (parser.rs): struct Parser and the locals of Parser::parse
    tokens, current_index, statements, errors, parse_result,
    \* Interpreter (interpreter.rs / environment.rs / main.rs)
    environment, program, outcome, log, entries,
    \* Scanner (scanner.rs): the locals of Scanner::scan
    source, scan_current_index, start_index, line, position, scan_tokens,
    scan_result,
    \* for every token of scan_tokens, the start_index add_token was given
    token_starts,
    \* Source (source.rs): the fields of struct Source (chars is the number
    \* of characters its Chars iterator has yielded), the lexemes that
    \* pop_lexeme has returned, and whether a call has panicked
    source_text, chars, source_current_index, lexeme_start,
    popped_lexemes, source_status

parser_vars == <<tokens, current_index, statements, errors, parse_result>>
interp_vars == <<environment, program, outcome, log, entries>>
scanner_vars == <<source, scan_current_index, start_index, line, position,
                  scan_tokens, token_starts, scan_result>>
source_vars == <<source_text, chars, source_current_index, lexeme_start,
                 popped_lexemes, source_status>>
vars == <<parser_vars, interp_vars, scanner_vars, source_vars>>

-----------------------------------------------------------------------------
(***************************************************************************)
(* Values (matcha.rs) and tokens (token.rs)                                *)
(***************************************************************************)

\* Option::None of a token's literal
NoLiteral == [k |-> "None"]

\* Literal::Number(NumberLiteral::Integer(n))
IntegerLiteral(n) == [k |-> "Integer", n |-> n]

\* Literal::Number(NumberLiteral::Float(num / den)), with den > 0.  The
\* inputs hold multiples of 0.5 only, whose sums, differences and products
\* f64 represents exactly.
FloatValue(num, den) == [k |-> "Float", num |-> num, den |-> den]

\* Literal::Boolean(b)
BooleanLiteral(b) == [k |-> "Boolean", b |-> b]

\* Literal::String(s)
StringLiteral(s) == [k |-> "String", s |-> s]

\* Value::Empty
Empty == [k |-> "Empty"]

\* Value::Optional(None)
OptionalNone == [k |-> "Optional"]

Digits == <<"0", "1", "2", "3", "4", "5", "6", "7", "8", "9">>

IntegerLexemes == {Digits[i] : i \in 1..Len(Digits)}

IdentifierLexemes == {"x", "y", "z", "i"}

StringLexemes == {"\"1\"", "\"2\""}

FloatLexemes == {"0.5", "1.0", "1.5"}

\* lexeme.parse::<f64>() of a float lexeme
FloatOf(lexeme) ==
    CASE lexeme = "0.5" -> FloatValue(1, 2)
      [] lexeme = "1.0" -> FloatValue(1, 1)
      [] lexeme = "1.5" -> FloatValue(3, 2)

\* the value of a one-digit integer lexeme
IntegerOf(lexeme) == (CHOOSE i \in 1..Len(Digits) : Digits[i] = lexeme) - 1

\* the token type of a lexeme
TokenTypeOf(lexeme) ==
    CASE lexeme = "(" -> "LeftParen"
      [] lexeme = ")" -> "RightParen"
      [] lexeme = "{" -> "LeftBrace"
      [] lexeme = "}" -> "RightBrace"
      [] lexeme = "-" -> "Minus"
      [] lexeme = "+" -> "Plus"
      [] lexeme = ";" -> "SemiColon"
      [] lexeme = "/" -> "Slash"
      [] lexeme = "*" -> "Star"
      [] lexeme = "!" -> "Bang"
      [] lexeme = "!=" -> "BangEqual"
      [] lexeme = "=" -> "Equal"
      [] lexeme = "==" -> "DoubleEqual"
      [] lexeme = ">" -> "Greater"
      [] lexeme = ">=" -> "GreaterEqual"
      [] lexeme = "<" -> "Less"
      [] lexeme = "<=" -> "LessEqual"
      [] lexeme = "&&" -> "And"
      [] lexeme = "||" -> "Or"
      [] lexeme = ":" -> "Colon"
      [] lexeme = ":=" -> "VarDec"
      [] lexeme = "else" -> "Else"
      [] lexeme = "false" -> "False"
      [] lexeme = "for" -> "For"
      [] lexeme = "if" -> "If"
      [] lexeme = "true" -> "True"
      [] lexeme = "while" -> "While"
      [] lexeme = "" -> "Eof"
      [] lexeme \in IntegerLexemes -> "Integer"
      [] lexeme \in FloatLexemes -> "Float"
      [] lexeme \in StringLexemes -> "String"
      [] lexeme \in IdentifierLexemes -> "Identifier"

\* the literal the scanner attaches to a token (Token.literal): the number
\* of a number token, the content of a string token, the name of an
\* identifier token, and None for every other token, the keywords `true`
\* and `false` included
LiteralOf(lexeme) ==
    CASE lexeme \in IntegerLexemes -> IntegerLiteral(IntegerOf(lexeme))
      [] lexeme \in FloatLexemes -> FloatOf(lexeme)
      [] lexeme = "\"1\"" -> StringLiteral("1")
      [] lexeme = "\"2\"" -> StringLiteral("2")
      [] lexeme \in IdentifierLexemes -> StringLiteral(lexeme)
      [] OTHER -> NoLiteral

\* Token::new
Token(token_type, lexeme, ln, pos, literal) ==
    [token_type |-> token_type, lexeme |-> lexeme, line |-> ln,
     position |-> pos, literal |-> literal]

\* The token sequence of a one-line source unit given by its lexemes: the
\* i-th token is at line 1, position i, and an Eof token ends the sequence.
Tokens(lexemes) ==
    [i \in 1..(Len(lexemes) + 1) |->
        IF i <= Len(lexemes)
        THEN Token(TokenTypeOf(lexemes[i]), lexemes[i], 1, i,
                   LiteralOf(lexemes[i]))
        ELSE Token("Eof", "", 1, i, NoLiteral)]

-----------------------------------------------------------------------------
(***************************************************************************)
(* Parser (parser.rs).  Every parsing method is an operator of the token   *)
(* vector and the cursor; its result carries the cursor it leaves behind   *)
(* (the methods take &mut self, so the cursor keeps its value when a       *)
(* method returns Err).                                                    *)
(***************************************************************************)

\* ParserError::new
ParserError(message, token) == [message |-> message, token |-> token]

\* Ok(v) / Err(e) of a parsing method, with the cursor it leaves
POk(i, v) == [st |-> "ok", i |-> i, v |-> v]
PErr(i, e) == [st |-> "err", i |-> i, v |-> e]

\* the `?` operator on the result r of a parsing method: an Err is returned
\* at once, an Ok result goes on with F
PThen(r, F(_)) == IF r.st # "ok" THEN r ELSE F(r)

\* Parser::next
Parser_next(toks, i) == toks[i + 1]

\* Parser::previous
Parser_previous(toks, i) == toks[i]

\* the mutant of is_end: only the last token ends the input
is_end_AtLastTokenOnly(toks, i) == i + 1 = Len(toks)

\* Parser::is_end
is_end(toks, i) == Parser_next(toks, i).token_type = "Eof"

\* Parser::next_matches
next_matches(toks, i, token_type) ==
    IF is_end(toks, i) THEN FALSE
    ELSE token_type = Parser_next(toks, i).token_type

\* Parser::advance (the cursor it leaves)
Parser_advance(toks, i) == IF ~is_end(toks, i) THEN i + 1 ELSE i

\* Parser::consumed_one_of (its boolean result; when TRUE the cursor has
\* advanced by one, see AfterConsumed)
consumed_one_of(toks, i, types) ==
    \E token_type \in types : next_matches(toks, i, token_type)

\* the cursor Parser::consumed_one_of leaves
AfterConsumed(toks, i, types) ==
    IF consumed_one_of(toks, i, types) THEN Parser_advance(toks, i) ELSE i

\* Parser::consume_and_expect
consume_and_expect(toks, i, token_type, error_message) ==
    LET j == Parser_advance(toks, i)
        previous == Parser_previous(toks, j)
    IN IF previous.token_type = token_type
       THEN POk(j, previous)
       ELSE PErr(j, ParserError(error_message, previous))

\* Parser::lookahead (None when out of range)
Parser_lookahead(toks, i, amount) ==
    IF i + amount + 1 <= Len(toks)
    THEN toks[i + amount + 1].token_type
    ELSE "None"

RECURSIVE Parser_expression(_, _)
RECURSIVE Parser_statement(_, _)

\* Parser::primary
primary(toks, i) ==
    IF consumed_one_of(toks, i, {"False", "True", "String", "Integer", "Float"})
    THEN POk(i + 1, [type |-> "Literal", value |-> Parser_next(toks, i)])
    ELSE IF Parser_next(toks, i).token_type = "Identifier"
    THEN POk(Parser_advance(toks, i),
             [type |-> "Variable", value |-> Parser_next(toks, i)])
    ELSE IF consumed_one_of(toks, i, {"LeftParen"})
    THEN PThen(Parser_expression(toks, i + 1),
               LAMBDA r :
                 IF ~next_matches(toks, r.i, "RightParen")
                 THEN PErr(r.i, ParserError("Expected ')' after expression",
                                            Parser_next(toks, r.i)))
                 ELSE POk(Parser_advance(toks, r.i),
                          [type |-> "Grouping", expression |-> r.v]))
    ELSE PErr(i, ParserError("Unexpected token", Parser_next(toks, i)))

RECURSIVE Parser_unary(_, _)
\* Parser::unary
Parser_unary(toks, i) ==
    IF consumed_one_of(toks, i, {"Bang", "Minus"})
    THEN PThen(Parser_unary(toks, i + 1),
               LAMBDA r : POk(r.i, [type |-> "Unary",
                                    operator |-> Parser_next(toks, i),
                                    left |-> r.v]))
    ELSE primary(toks, i)

\* The loop shared by factor, term, comparison, equality, and, or:
\*     while self.consumed_one_of(types) {
\*         operator = previous(); right = operand()?; expr = node(expr, ..) }
\* level names the method whose loop this is.
RECURSIVE BinaryLoop(_, _, _, _)

\* LevelTypes with the operators of factor and term exchanged
LevelTypes_TermFactorSwapped(level) ==
    CASE level = "factor" -> {"Minus", "Plus"}
      [] level = "term" -> {"Slash", "Star"}
      [] level = "comparison" ->
            {"Greater", "GreaterEqual", "Less", "LessEqual"}
      [] level = "equality" -> {"DoubleEqual", "BangEqual"}
      [] level = "and" -> {"And"}
      [] level = "or" -> {"Or"}

\* the operator token types of a precedence level
LevelTypes(level) ==
    CASE level = "factor" -> {"Slash", "Star"}
      [] level = "term" -> {"Minus", "Plus"}
      [] level = "comparison" ->
            {"Greater", "GreaterEqual", "Less", "LessEqual"}
      [] level = "equality" -> {"DoubleEqual", "BangEqual"}
      [] level = "and" -> {"And"}
      [] level = "or" -> {"Or"}

\* the node a precedence level builds
LevelNode(level) == IF level \in {"and", "or"} THEN "Logical" ELSE "Binary"

RECURSIVE Operand(_, _, _)

RECURSIVE BinaryLoop_RightNested(_, _, _, _)
\* BinaryLoop making the rest of the chain the right operand
BinaryLoop_RightNested(toks, i, expr, level) ==
    IF consumed_one_of(toks, i, LevelTypes(level))
    THEN PThen(Operand(toks, i + 1, level),
               LAMBDA r :
                 PThen(BinaryLoop_RightNested(toks, r.i, r.v, level),
                       LAMBDA rest :
                         POk(rest.i,
                             [type |-> LevelNode(level), left |-> expr,
                              operator |-> Parser_next(toks, i),
                              right |-> rest.v])))
    ELSE POk(i, expr)

BinaryLoop(toks, i, expr, level) ==
    IF consumed_one_of(toks, i, LevelTypes(level))
    THEN PThen(Operand(toks, i + 1, level),
               LAMBDA r :
                 BinaryLoop(toks, r.i,
                            [type |-> LevelNode(level), left |-> expr,
                             operator |-> Parser_next(toks, i),
                             right |-> r.v],
                            level))
    ELSE POk(i, expr)

\* Parser::factor
factor(toks, i) ==
    PThen(Parser_unary(toks, i),
          LAMBDA r : BinaryLoop(toks, r.i, r.v, "factor"))

\* Parser::term
term(toks, i) ==
    PThen(factor(toks, i),
          LAMBDA r : BinaryLoop(toks, r.i, r.v, "term"))

\* Parser::comparison
comparison(toks, i) ==
    PThen(term(toks, i),
          LAMBDA r : BinaryLoop(toks, r.i, r.v, "comparison"))

\* Parser::equality (its call of next_matches(Equal) has no effect)
equality(toks, i) ==
    PThen(comparison(toks, i),
          LAMBDA r : BinaryLoop(toks, r.i, r.v, "equality"))

\* Parser::and
Parser_and(toks, i) ==
    PThen(equality(toks, i),
          LAMBDA r : BinaryLoop(toks, r.i, r.v, "and"))

\* Parser::or
Parser_or(toks, i) ==
    PThen(Parser_and(toks, i),
          LAMBDA r : BinaryLoop(toks, r.i, r.v, "or"))

\* the method that parses the operands of a precedence level
Operand(toks, i, level) ==
    CASE level = "factor" -> Parser_unary(toks, i)
      [] level = "term" -> factor(toks, i)
      [] level = "comparison" -> term(toks, i)
      [] level = "equality" -> comparison(toks, i)
      [] level = "and" -> equality(toks, i)
      [] level = "or" -> Parser_and(toks, i)

\* Parser::assignment parsing the assigned value with or()
assignment_ValueParsedByOr(toks, i) ==
    PThen(Parser_or(toks, i),
          LAMBDA r :
            IF consumed_one_of(toks, r.i, {"Equal"})
            THEN IF r.v.type = "Variable"
                 THEN PThen(Parser_or(toks, r.i + 1),
                            LAMBDA v : POk(v.i, [type |-> "Assignment",
                                                 identifier |-> r.v.value,
                                                 value |-> v.v]))
                 ELSE PErr(r.i + 1,
                           ParserError("Invalid assignment target",
                                       Parser_next(toks, r.i)))
            ELSE r)

RECURSIVE assignment(_, _)
\* Parser::assignment
assignment(toks, i) ==
    PThen(Parser_or(toks, i),
          LAMBDA r :
            IF consumed_one_of(toks, r.i, {"Equal"})
            THEN IF r.v.type = "Variable"
                 THEN PThen(assignment(toks, r.i + 1),
                            LAMBDA v : POk(v.i, [type |-> "Assignment",
                                                 identifier |-> r.v.value,
                                                 value |-> v.v]))
                 ELSE PErr(r.i + 1,
                           ParserError("Invalid assignment target",
                                       Parser_next(toks, r.i)))
            ELSE r)

\* Parser::expression
Parser_expression(toks, i) == assignment(toks, i)

\* Parser::expression_statement
expression_statement(toks, i) ==
    PThen(Parser_expression(toks, i),
          LAMBDA r :
            PThen(consume_and_expect(toks, r.i, "SemiColon", "Expected ';'"),
                  LAMBDA c : POk(c.i, [type |-> "Expression",
                                       expression |-> r.v])))

\* Parser::variable_declaration_type
variable_declaration_type(toks, i) ==
    consume_and_expect(toks, i, "Identifier", "Expected type identifier")

\* Parser::variable_declaration (statement calls it only when the lookahead
\* shows `identifier :=` or `identifier : type =`, so its unreachable!() arm
\* is not reached)
Parser_variable_declaration(toks, i) ==
    PThen(consume_and_expect(toks, i, "Identifier", "Expected identifier"),
      LAMBDA id :
        PThen(IF consumed_one_of(toks, id.i, {"Colon"})
              THEN variable_declaration_type(toks, id.i + 1)
              ELSE POk(id.i, NoLiteral),
          LAMBDA ty :
            PThen(Parser_expression(
                      toks, AfterConsumed(toks, ty.i, {"VarDec", "Equal"})),
              LAMBDA init :
                PThen(consume_and_expect(toks, init.i, "SemiColon",
                                         "Expected ';'"),
                  LAMBDA c : POk(c.i, [type |-> "VariableDeclaration",
                                       identifier |-> id.v,
                                       initializer |-> init.v,
                                       declared_type |-> ty.v])))))

RECURSIVE BlockLoop(_, _, _)
\* the loop of Parser::block:
\*     while !next_matches(RightBrace) && !is_end() { push(statement()?) }
BlockLoop(toks, i, stmts) ==
    IF ~next_matches(toks, i, "RightBrace") /\ ~is_end(toks, i)
    THEN PThen(Parser_statement(toks, i),
               LAMBDA r : BlockLoop(toks, r.i, Append(stmts, r.v)))
    ELSE POk(i, stmts)

\* Parser::block
Parser_block(toks, i) ==
    PThen(BlockLoop(toks, i, <<>>),
          LAMBDA r :
            PThen(consume_and_expect(toks, r.i, "RightBrace",
                                     "Expected '}' after block"),
                  LAMBDA c : POk(c.i, r.v)))

\* Option::None of IfStatement.else_statements
NoElse == [none |-> TRUE]

\* Parser::if_statement (the `if` keyword is consumed already)
Parser_if_statement(toks, i) ==
    PThen(Parser_expression(toks, i),
      LAMBDA cond :
        PThen(consume_and_expect(toks, cond.i, "LeftBrace",
                                 "Expected '{' after condition"),
          LAMBDA lb :
            PThen(Parser_block(toks, lb.i),
              LAMBDA then :
                IF consumed_one_of(toks, then.i, {"Else"})
                THEN PThen(consume_and_expect(toks, then.i + 1, "LeftBrace",
                                              "Expected '{' after condition"),
                       LAMBDA lb2 :
                         PThen(Parser_block(toks, lb2.i),
                           LAMBDA els :
                             POk(els.i, [type |-> "If",
                                         condition |-> cond.v,
                                         statements |-> then.v,
                                         else_statements |->
                                            [none |-> FALSE,
                                             statements |-> els.v]])))
                ELSE POk(then.i, [type |-> "If",
                                  condition |-> cond.v,
                                  statements |-> then.v,
                                  else_statements |-> NoElse]))))

\* Parser::while_statement (the `for` keyword is consumed already)
Parser_while_statement(toks, i) ==
    PThen(Parser_expression(toks, i),
      LAMBDA cond :
        PThen(consume_and_expect(toks, cond.i, "LeftBrace",
                                 "Expected '{' after condition"),
          LAMBDA lb :
            PThen(Parser_block(toks, lb.i),
              LAMBDA body : POk(body.i, [type |-> "For",
                                         condition |-> cond.v,
                                         statements |-> body.v]))))

\* IsDeclarationAhead taking `identifier =` for a declaration too
IsDeclarationAhead_AlsoPlainEqual(toks, i) ==
    /\ Parser_lookahead(toks, i, 0) = "Identifier"
    /\ \/ Parser_lookahead(toks, i, 1) \in {"VarDec", "Equal"}
       \/ /\ Parser_lookahead(toks, i, 1) = "Colon"
          /\ Parser_lookahead(toks, i, 2) = "Identifier"
          /\ Parser_lookahead(toks, i, 3) = "Equal"

\* the lookahead_many::<4>() test of Parser::statement
IsDeclarationAhead(toks, i) ==
    \/ /\ Parser_lookahead(toks, i, 0) = "Identifier"
       /\ Parser_lookahead(toks, i, 1) = "Colon"
       /\ Parser_lookahead(toks, i, 2) = "Identifier"
       /\ Parser_lookahead(toks, i, 3) = "Equal"
    \/ /\ Parser_lookahead(toks, i, 0) = "Identifier"
       /\ Parser_lookahead(toks, i, 1) = "VarDec"

\* Parser::statement
Parser_statement(toks, i) ==
    IF consumed_one_of(toks, i, {"If"})
    THEN Parser_if_statement(toks, i + 1)
    ELSE IF consumed_one_of(toks, i, {"For"})
    THEN Parser_while_statement(toks, i + 1)
    ELSE IF IsDeclarationAhead(toks, i)
    THEN Parser_variable_declaration(toks, i)
    ELSE IF consumed_one_of(toks, i, {"LeftBrace"})
    THEN PThen(Parser_block(toks, i + 1),
               LAMBDA r : POk(r.i, [type |-> "Block", statements |-> r.v]))
    ELSE expression_statement(toks, i)

\* the mutant of sync: recovery leaves the cursor where the error left it
sync_Stays(toks, i) == i

RECURSIVE SyncLoop(_, _)
\* the loop of Parser::sync
SyncLoop(toks, i) ==
    IF ~is_end(toks, i)
    THEN IF Parser_previous(toks, i).token_type \in {"SemiColon", "For", "If"}
         THEN i
         ELSE SyncLoop(toks, Parser_advance(toks, i))
    ELSE i

\* Parser::sync (the cursor it leaves)
sync(toks, i) == SyncLoop(toks, Parser_advance(toks, i))

\* ParseReturnValue returning the statements whenever some statement parsed
ParseReturnValue_OkWhenSomeParsed(stmts, errs) ==
    IF errs = <<>> \/ stmts # <<>>
    THEN [st |-> "Ok", statements |-> stmts]
    ELSE [st |-> "Err", errors |-> errs]

\* the return of Parser::parse: Ok(statements) when no error was recorded,
\* else Err(errors)
ParseReturnValue(stmts, errs) ==
    IF errs = <<>>
    THEN [st |-> "Ok", statements |-> stmts]
    ELSE [st |-> "Err", errors |-> errs]

RECURSIVE ParseLoop(_, _, _, _)

\* the match on the result of statement() in the loop of Parser::parse
ParseStep(toks, stmts, errs, result) ==
    IF result.st = "ok"
    THEN ParseLoop(toks, result.i, Append(stmts, result.v), errs)
    ELSE ParseLoop(toks, sync(toks, result.i), stmts, Append(errs, result.v))

\* the loop of Parser::parse
ParseLoop(toks, i, stmts, errs) ==
    IF ~is_end(toks, i)
    THEN ParseStep(toks, stmts, errs, Parser_statement(toks, i))
    ELSE ParseReturnValue(stmts, errs)

\* Parser::parse
parse(toks) == ParseLoop(toks, 0, <<>>, <<>>)

-----------------------------------------------------------------------------
(***************************************************************************)
(* Interpreter (interpreter.rs) and Environment (environment.rs).          *)
(*                                                                         *)
(* The environments alive during an evaluation form a chain: envs[1] is    *)
(* the root (parent None) and envs[d - 1] is the parent of envs[d].  An    *)
(* Rc<RefCell<Environment>> argument is the index d of the environment.    *)
(* An evaluation state S carries the environments, the status of the       *)
(* evaluation ("ok", "err" for a returned InterpreterError, "panic" for an *)
(* abort, "timeout" when a loop exceeds MaxIterations), the value or       *)
(* message, and a log of what was called, written and raised.              *)
(***************************************************************************)

\* most iterations of one loop statement an evaluation follows
MaxIterations == 4

\* Environment::new / Environment::with_parent: no values
EmptyEnvironment == [name \in {} |-> Empty]

NewEvaluation(root) ==
    [envs |-> <<root>>, borrows |-> <<0>>, st |-> "ok", value |-> Empty,
     message |-> "", log |-> <<>>]

Logged(S, event) == [S EXCEPT !.log = Append(@, event)]

\* Ok(value)
Return(S, value) == [S EXCEPT !.value = value]

\* Err(InterpreterError { message, .. })
Raise(S, message) ==
    [Logged(S, [ev |-> "error", message |-> message])
        EXCEPT !.st = "err", !.message = message]

\* the `?` operator on the state R an evaluation returned: an error (or a
\* panic, or a timeout) is returned at once, Ok goes on with F
Then(R, F(_)) == IF R.st # "ok" THEN R ELSE F(R)

\* `let R = ..;` followed by F
With(R, F(_)) == F(R)

\* a panic of the Rust runtime
Panic(S, message) ==
    [Logged(S, [ev |-> "panic", message |-> message])
        EXCEPT !.st = "panic", !.message = message]

\* RefCell::borrow on environment d, kept in a local: one more Ref of it is
\* live.  (No RefMut is live when borrow is called: the two RefMut of
\* interpreter.rs are released before anything else is evaluated.)
borrow(S, d) == [S EXCEPT !.borrows[d] = @ + 1]

\* the mutant of DropBorrow: the Ref stays live
DropBorrow_Kept(S, d) == S

\* `drop(env_borrow)` in the Some arm of Interpreter::assign
DropBorrow(S, d) == [S EXCEPT !.borrows[d] = @ - 1]

\* the end of the scope of a Ref of environment d
EndBorrow(S, d) == [S EXCEPT !.borrows[d] = @ - 1]

\* RefCell::borrow_mut on environment d: a panic when a Ref of it is live
borrow_mut(S, d) ==
    IF S.borrows[d] > 0
    THEN Panic(Logged(S, [ev |-> "borrow_mut", d |-> d,
                          held |-> S.borrows]),
               "already borrowed: BorrowMutError")
    ELSE Logged(S, [ev |-> "borrow_mut", d |-> d, held |-> S.borrows])

NULLABLE_VALUE_OPERATION_ERROR_MESSAGE ==
    "Cannot execute an operation in an optional value. Try unwrapping it first"

EMPTY_VALUE_OPERATION_ERROR_MESSAGE ==
    "Cannot execute a unary operation in an empty value"

IsNumber(v) == v.k \in {"Integer", "Float"}

\* a number as the fraction Numerator / Denominator (`left as f64`,
\* f64::from(left) for an Integer)
Numerator(v) == IF v.k = "Integer" THEN v.n ELSE v.num

Denominator(v) == IF v.k = "Integer" THEN 1 ELSE v.den

\* Rust's integer division, which truncates toward zero
TruncatingDiv(a, b) ==
    IF (a >= 0) = (b >= 0)
    THEN (IF a >= 0 THEN a ELSE -a) \div (IF b >= 0 THEN b ELSE -b)
    ELSE -((IF a >= 0 THEN a ELSE -a) \div (IF b >= 0 THEN b ELSE -b))

\* impl Div for NumberLiteral, Integer / Integer: `left / right` panics
\* ("attempt to divide by zero") when right is 0
DivPanics(left, right) ==
    left.k = "Integer" /\ right.k = "Integer" /\ right.n = 0

\* impl Add / Sub / Mul / Div for NumberLiteral: Integer with Integer
\* gives an Integer, every other pair a Float.  The quotient of a pair
\* with a Float (an f64 division, which rounds) is not modelled; no input
\* divides by or into a Float.
Arithmetic(operator, left, right) ==
    IF left.k = "Integer" /\ right.k = "Integer"
    THEN CASE operator = "Plus" -> IntegerLiteral(left.n + right.n)
           [] operator = "Minus" -> IntegerLiteral(left.n - right.n)
           [] operator = "Star" -> IntegerLiteral(left.n * right.n)
           [] operator = "Slash" ->
                IntegerLiteral(TruncatingDiv(left.n, right.n))
    ELSE CASE operator = "Plus" ->
                FloatValue(Numerator(left) * Denominator(right)
                             + Numerator(right) * Denominator(left),
                           Denominator(left) * Denominator(right))
           [] operator = "Minus" ->
                FloatValue(Numerator(left) * Denominator(right)
                             - Numerator(right) * Denominator(left),
                           Denominator(left) * Denominator(right))
           [] operator = "Star" ->
                FloatValue(Numerator(left) * Numerator(right),
                           Denominator(left) * Denominator(right))

\* impl PartialEq for NumberLiteral: the operands as f64 are equal
NumberEq(left, right) ==
    Numerator(left) * Denominator(right)
        = Numerator(right) * Denominator(left)

\* impl PartialOrd for NumberLiteral: the operands as f64 are in order
NumberLess(left, right) ==
    Numerator(left) * Denominator(right)
        < Numerator(right) * Denominator(left)

\* the operators > >= < <= of NumberLiteral
Comparison(operator, left, right) ==
    CASE operator = "Greater" -> BooleanLiteral(NumberLess(right, left))
      [] operator = "GreaterEqual" -> BooleanLiteral(~NumberLess(left, right))
      [] operator = "Less" -> BooleanLiteral(NumberLess(left, right))
      [] operator = "LessEqual" -> BooleanLiteral(~NumberLess(right, left))

\* Interpreter::unwrap_number: "" when the value is a number, else the
\* message of its error
unwrap_number(value) ==
    CASE IsNumber(value) -> ""
      [] value.k = "String" -> "Expected number, got string"
      [] value.k = "Boolean" -> "Expected number, got boolean"
      [] value.k = "Empty" -> EMPTY_VALUE_OPERATION_ERROR_MESSAGE
      [] value.k = "Optional" -> NULLABLE_VALUE_OPERATION_ERROR_MESSAGE

\* Interpreter::unwrap_bool: "" when the value is a boolean, else the
\* message of its error
unwrap_bool(value) ==
    CASE value.k = "Boolean" -> ""
      [] IsNumber(value) -> "Expected boolean, got number"
      [] value.k = "String" -> "Expected number, got string"
      [] value.k = "Empty" -> EMPTY_VALUE_OPERATION_ERROR_MESSAGE
      [] value.k = "Optional" -> NULLABLE_VALUE_OPERATION_ERROR_MESSAGE

\* SameKind holding for every pair of literals
SameKind_Always(left, right) == TRUE

\* the same literal kind (Number-Number, String-String, Boolean-Boolean)
SameKind(left, right) ==
    \/ IsNumber(left) /\ IsNumber(right)
    \/ left.k = "String" /\ right.k = "String"
    \/ left.k = "Boolean" /\ right.k = "Boolean"

IsLiteralValue(v) == v.k \in {"Integer", "Float", "String", "Boolean"}

\* `left == right` of two literals of the same kind
LiteralEq(left, right) ==
    IF IsNumber(left) /\ IsNumber(right)
    THEN NumberEq(left, right)
    ELSE left = right

\* Interpreter::literal
Interpreter_literal(S, literal) ==
    IF literal.value.literal # NoLiteral
    THEN Return(S, literal.value.literal)
    ELSE Raise(S, "Literal expression value is None. This should never be the case.")

RECURSIVE Interpreter_variable_expression(_, _, _)
\* Interpreter::variable_expression
Interpreter_variable_expression(S, d, variable) ==
    IF variable.value.lexeme \in DOMAIN S.envs[d]
    THEN Return(S, S.envs[d][variable.value.lexeme])
    ELSE IF d > 1
    THEN Interpreter_variable_expression(S, d - 1, variable)
    ELSE Raise(S, "Variable not found in the current scope")

RECURSIVE Interpreter_expression(_, _, _)
RECURSIVE Interpreter_evaluate(_, _, _)

\* Interpreter::grouping
Interpreter_grouping(S, d, grouping) ==
    Interpreter_expression(S, d, grouping.expression)

\* Interpreter::unary
Interpreter_unary(S, d, unary) ==
    Then(Interpreter_expression(S, d, unary.left),
      LAMBDA R :
        IF R.value.k = "Empty"
        THEN Raise(R, EMPTY_VALUE_OPERATION_ERROR_MESSAGE)
        ELSE IF R.value.k = "Optional"
        THEN Raise(R, NULLABLE_VALUE_OPERATION_ERROR_MESSAGE)
        ELSE IF unary.operator.token_type = "Minus"
        THEN IF IsNumber(R.value)
             THEN Return(R, IF R.value.k = "Integer"
                            THEN IntegerLiteral(-R.value.n)
                            ELSE FloatValue(-R.value.num, R.value.den))
             ELSE Raise(R, "Cannot use operator \"-\" on non-numeric value")
        ELSE IF unary.operator.token_type = "Bang"
        THEN IF R.value.k = "Boolean"
             THEN Return(R, BooleanLiteral(~R.value.b))
             ELSE Raise(R, "Cannot negate non-boolean value")
        ELSE Raise(R, "Unexpected unary operator"))

\* the arms of Interpreter::binary, once both operands are evaluated
BinaryResult(R, operator, left_value, right_value) ==
    IF operator \in {"Plus", "Minus", "Star", "Slash", "Greater",
                     "GreaterEqual", "Less", "LessEqual"}
    THEN IF unwrap_number(left_value) # ""
         THEN Raise(R, unwrap_number(left_value))
         ELSE IF unwrap_number(right_value) # ""
         THEN Raise(R, unwrap_number(right_value))
         ELSE IF operator = "Slash" /\ DivPanics(left_value, right_value)
         THEN Panic(R, "attempt to divide by zero")
         ELSE IF operator \in {"Plus", "Minus", "Star", "Slash"}
         THEN Return(R, Arithmetic(operator, left_value, right_value))
         ELSE Return(R, Comparison(operator, left_value, right_value))
    ELSE IF operator \in {"DoubleEqual", "BangEqual"}
    THEN IF IsLiteralValue(left_value) /\ IsLiteralValue(right_value)
         THEN IF SameKind(left_value, right_value)
              THEN Return(R, BooleanLiteral(
                       LiteralEq(left_value, right_value)
                           = (operator = "DoubleEqual")))
              ELSE Raise(R, "Can't compare values of different types")
         ELSE Raise(R, "Can't compare non-literal values")
    ELSE Raise(R, "Invalid operator")

\* Interpreter::binary
Interpreter_binary(S, d, binary) ==
    Then(Interpreter_expression(S, d, binary.left),
      LAMBDA L :
        Then(Interpreter_expression(L, d, binary.right),
          LAMBDA R : BinaryResult(R, binary.operator.token_type,
                                  L.value, R.value)))

\* whether Interpreter::logical evaluates its right operand, given the
\* operator and the value of the left operand
EvaluatesRight(operator, left_value) ==
    IF operator = "Or" THEN ~left_value ELSE left_value

\* Interpreter::logical
Interpreter_logical(S, d, logical) ==
    Then(Interpreter_expression(S, d, logical.left),
      LAMBDA L :
        IF unwrap_bool(L.value) # ""
        THEN Raise(L, unwrap_bool(L.value))
        ELSE IF ~EvaluatesRight(logical.operator.token_type, L.value.b)
        THEN Logged(Return(L, BooleanLiteral(
                                logical.operator.token_type = "Or")),
                    [ev |-> "logical", expression |-> logical,
                     left |-> L.value.b, from |-> Len(S.log)])
        ELSE Logged(
               Then(Interpreter_expression(L, d, logical.right),
                 LAMBDA R :
                   IF unwrap_bool(R.value) # ""
                   THEN Raise(R, unwrap_bool(R.value))
                   ELSE Return(R, BooleanLiteral(R.value.b))),
               [ev |-> "logical", expression |-> logical,
                left |-> L.value.b, from |-> Len(S.log)]))

\* the environment in which Interpreter::assign evaluates the right-hand
\* side once it has found the name in environment `found`, reached from
\* the environment `site` of the assignment expression: the recursion
\* `Interpreter::assign(Rc::clone(parent), assignment)` has replaced the
\* environment argument by the one that holds the binding
AssignValueEnvironment(site, found) == found

RECURSIVE AssignIn(_, _, _, _)
\* Interpreter::assign, called for the assign_expr expression evaluated in
\* environment `site`, at the environment d of its walk up the chain
AssignIn(S, site, d, assign_expr) ==
    IF assign_expr.identifier.lexeme \in DOMAIN S.envs[d]
    THEN Then(Interpreter_expression(DropBorrow(borrow(S, d), d),
                                     AssignValueEnvironment(site, d),
                                     assign_expr.value),
           LAMBDA R :
             Then(borrow_mut(R, d),
               LAMBDA M :
                 Return(
                   Logged([M EXCEPT
                             !.envs[d][assign_expr.identifier.lexeme] =
                                 R.value],
                          [ev |-> "write", d |-> d,
                           name |-> assign_expr.identifier.lexeme,
                           value |-> R.value]),
                   Empty)))
    ELSE IF d > 1
    THEN With(AssignIn(borrow(S, d), site, d - 1, assign_expr),
           LAMBDA R : EndBorrow(R, d))
    ELSE Raise(S, "Cannot assign a value to undeclared variable")

\* Interpreter::assign
Interpreter_assign(S, d, assign_expr) == AssignIn(S, d, d, assign_expr)

\* Interpreter::expression
Interpreter_expression(S, d, expression) ==
    With(Logged(S, [ev |-> "expression", expression |-> expression,
                    d |-> d]),
      LAMBDA C :
        CASE expression.type = "Literal" -> Interpreter_literal(C, expression)
          [] expression.type = "Unary" -> Interpreter_unary(C, d, expression)
          [] expression.type = "Grouping" ->
                Interpreter_grouping(C, d, expression)
          [] expression.type = "Binary" ->
                Interpreter_binary(C, d, expression)
          [] expression.type = "Variable" ->
                Interpreter_variable_expression(C, d, expression)
          [] expression.type = "Assignment" ->
                With(Interpreter_assign(C, d, expression),
                  LAMBDA R :
                    Logged(R, [ev |-> "assign", d |-> d,
                               assignment |-> expression,
                               before |-> SubSeq(S.envs, 1, d),
                               after |-> SubSeq(R.envs, 1, d),
                               st |-> R.st]))
          [] expression.type = "Logical" ->
                Interpreter_logical(C, d, expression))

\* the value of the initializer in Interpreter::variable_declaration
DeclarationValue(S, d, decl) ==
    IF decl.initializer.type = "Literal"
    THEN IF decl.initializer.value.literal # NoLiteral
         THEN Return(S, decl.initializer.value.literal)
         ELSE Return(S, OptionalNone)
    ELSE Interpreter_expression(S, d, decl.initializer)

\* the mutant of InsertReturnedSome: a declaration never finds the name
InsertReturnedSome_Never(env, name) == FALSE

\* whether the insert of Interpreter::variable_declaration is followed by
\* the error "already declared in this scope": HashMap::insert returned
\* Some(old value)
InsertReturnedSome(env, name) == name \in DOMAIN env

\* Interpreter::variable_declaration
Interpreter_variable_declaration(S, d, decl) ==
    Then(DeclarationValue(S, d, decl),
      LAMBDA V :
        Then(borrow_mut(V, d),
          LAMBDA M :
            With(Logged([M EXCEPT
                           !.envs[d] = (decl.identifier.lexeme :> V.value)
                                          @@ V.envs[d]],
                        [ev |-> "write", d |-> d,
                         name |-> decl.identifier.lexeme,
                         value |-> V.value]),
              LAMBDA W :
                IF InsertReturnedSome(V.envs[d], decl.identifier.lexeme)
                THEN Raise(W, "Variable already declared in this scope")
                ELSE W)))

RECURSIVE interpret(_, _, _)

\* the mutant of Interpreter_block: the statements of the block run in the
\* enclosing environment itself
Interpreter_block_InEnclosing(S, d, block_statements) ==
    With(interpret(S, d, block_statements),
      LAMBDA R :
        Logged(R, [ev |-> "block", d |-> d, statements |-> block_statements,
                   before |-> S.envs, after |-> R.envs,
                   inner |-> R.envs[d], st |-> R.st]))

\* Interpreter::block: the inner environment is the child of environment
\* d; it is dropped when interpret returns.  Statements are only evaluated
\* in the innermost environment alive, so d = Len(S.envs) here.
Interpreter_block(S, d, block_statements) ==
    With(interpret([S EXCEPT !.envs = Append(SubSeq(S.envs, 1, d),
                                             EmptyEnvironment),
                             !.borrows = Append(SubSeq(S.borrows, 1, d), 0)],
                   d + 1, block_statements),
      LAMBDA R :
        Logged([R EXCEPT !.envs = SubSeq(R.envs, 1, d),
                         !.borrows = SubSeq(R.borrows, 1, d)],
               [ev |-> "block", d |-> d, statements |-> block_statements,
                before |-> S.envs, after |-> SubSeq(R.envs, 1, d),
                inner |-> R.envs[d + 1], st |-> R.st]))

\* Interpreter::if_statement
Interpreter_if_statement(S, d, if_statement) ==
    Then(Interpreter_expression(S, d, if_statement.condition),
      LAMBDA C :
        IF C.value.k # "Boolean"
        THEN Raise(C, "Expected boolean condition")
        ELSE IF C.value.b
        THEN Interpreter_block(C, d, if_statement.statements)
        ELSE IF ~if_statement.else_statements.none
        THEN Interpreter_block(C, d, if_statement.else_statements.statements)
        ELSE Return(C, Empty))

RECURSIVE WhileLoop(_, _, _, _)
\* the loop of Interpreter::while_statement, followed for at most
\* MaxIterations iterations
WhileLoop(S, d, while_statement, iterations) ==
    Then(Interpreter_expression(S, d, while_statement.condition),
      LAMBDA E :
        With(Logged(E, [ev |-> "condition", d |-> d,
                        statement |-> while_statement,
                        iterations |-> iterations,
                        before |-> S.envs, value |-> E.value]),
          LAMBDA C :
            IF unwrap_bool(C.value) # ""
            THEN Raise(C, unwrap_bool(C.value))
            ELSE IF ~C.value.b
            THEN Return(C, Empty)
            ELSE IF iterations = MaxIterations
            THEN [C EXCEPT !.st = "timeout"]
            ELSE Then(Interpreter_block(C, d, while_statement.statements),
                   LAMBDA B :
                     WhileLoop(B, d, while_statement, iterations + 1))))

\* the mutant of Interpreter_while_statement: the condition is evaluated
\* once, as for an if statement
Interpreter_while_statement_Once(S, d, while_statement) ==
    Then(Interpreter_expression(S, d, while_statement.condition),
      LAMBDA C :
        IF unwrap_bool(C.value) # ""
        THEN Raise(C, unwrap_bool(C.value))
        ELSE IF ~C.value.b
        THEN Return(C, Empty)
        ELSE Then(Interpreter_block(C, d, while_statement.statements),
               LAMBDA B : Return(B, Empty)))

\* Interpreter::while_statement
Interpreter_while_statement(S, d, while_statement) ==
    WhileLoop(S, d, while_statement, 0)

\* Interpreter::evaluate (the loop statement is Statement::For in parser.rs
\* and Statement::While in interpreter.rs)
Interpreter_evaluate(S, d, statement) ==
    With(Logged(S, [ev |-> "evaluate", statement |-> statement, d |-> d]),
      LAMBDA C :
        CASE statement.type = "VariableDeclaration" ->
                With(Interpreter_variable_declaration(C, d, statement),
                  LAMBDA R :
                    Logged(IF R.st = "ok" THEN Return(R, Empty) ELSE R,
                           [ev |-> "declare", d |-> d,
                            name |-> statement.identifier.lexeme,
                            before |-> S.envs, after |-> R.envs,
                            initialized |->
                                DeclarationValue(C, d, statement).st = "ok",
                            st |-> R.st, message |-> R.message]))
          [] statement.type = "Expression" ->
                Interpreter_expression(C, d, statement.expression)
          [] statement.type = "Block" ->
                Interpreter_block(C, d, statement.statements)
          [] statement.type = "If" ->
                Interpreter_if_statement(C, d, statement)
          [] statement.type \in {"For", "While"} ->
                Interpreter_while_statement(C, d, statement))

\* the mutant of Continues: interpret goes on after an error
Continues_Always(st) == TRUE

\* whether Interpreter::interpret goes on to the next statement after a
\* statement's evaluation ended with status st (the `?` of its loop)
Continues(st) == st = "ok"

RECURSIVE InterpretLoop(_, _, _, _)
\* the loop of Interpreter::interpret, at statement i (0-based)
InterpretLoop(S, d, stmts, i) ==
    IF i >= Len(stmts) THEN Return(S, Empty)
    ELSE IF i = Len(stmts) - 1
    THEN Interpreter_evaluate(S, d, stmts[i + 1])
    ELSE With(Interpreter_evaluate(S, d, stmts[i + 1]),
           LAMBDA R : IF ~Continues(R.st) THEN R
                      ELSE InterpretLoop(R, d, stmts, i + 1))

\* Interpreter::interpret
interpret(S, d, stmts) == InterpretLoop(S, d, stmts, 0)

-----------------------------------------------------------------------------
(***************************************************************************)
(* Scanner (scanner.rs).  A source is a sequence of characters; a scan     *)
(* state Z carries the locals of Scanner::scan that scan_token and its     *)
(* handlers update: current_index (i), line, position, tokens, and the     *)
(* status of the call ("ok", "err" with the ScannerError, "panic").        *)
(***************************************************************************)

\* the number of bytes of a character in UTF-8
ByteLen(c) == IF c = "é" THEN 2 ELSE 1

RECURSIVE SourceLen(_)
\* source.len(): the number of bytes of the source
SourceLen(src) ==
    IF src = <<>> THEN 0 ELSE ByteLen(Head(src)) + SourceLen(Tail(src))

\* Scanner::eof
eof(src, current) == SourceLen(src) <= current

\* '\0', which lookahead returns at the end of the input
NUL == "NUL"

\* the None of source.chars().nth(index), whose unwrap panics
NoChar == "None"

\* source.chars().nth(index)
CharAt(src, index) == IF index < Len(src) THEN src[index + 1] ELSE NoChar

\* Scanner::lookahead
Scanner_lookahead(src, index) ==
    IF eof(src, index) THEN NUL ELSE CharAt(src, index)

\* the ASCII letters (inputs use lower-case letters only)
Letters ==
    {"a", "b", "c", "d", "e", "f", "g", "h", "i", "j", "k", "l", "m", "n",
     "o", "p", "q", "r", "s", "t", "u", "v", "w", "x", "y", "z"}

is_ascii_digit(c) == c \in IntegerLexemes

is_ascii_alphanumeric(c) == c \in Letters \/ is_ascii_digit(c)

\* KEYWORDS of matcha.rs
KEYWORDS ==
    { [text |-> <<"s", "t", "r", "u", "c", "t">>, token_type |-> "Struct"],
      [text |-> <<"e", "l", "s", "e">>, token_type |-> "Else"],
      [text |-> <<"f", "a", "l", "s", "e">>, token_type |-> "False"],
      [text |-> <<"f", "u", "n", "c">>, token_type |-> "Func"],
      [text |-> <<"f", "o", "r">>, token_type |-> "For"],
      [text |-> <<"i", "f">>, token_type |-> "If"],
      [text |-> <<"n", "i", "l">>, token_type |-> "Nil"],
      [text |-> <<"r", "e", "t", "u", "r", "n">>, token_type |-> "Return"],
      [text |-> <<"s", "u", "p", "e", "r">>, token_type |-> "Super"],
      [text |-> <<"t", "h", "i", "s">>, token_type |-> "This"],
      [text |-> <<"t", "r", "u", "e">>, token_type |-> "True"],
      [text |-> <<"l", "e", "t">>, token_type |-> "Let"],
      [text |-> <<"w", "h", "i", "l", "e">>, token_type |-> "While"] }

\* ScannerError::new
ScannerError(message, ln, pos) ==
    [message |-> message, line |-> ln, position |-> pos]

ScanFailed(Z, message) ==
    [Z EXCEPT !.st = "err",
              !.error = ScannerError(message, Z.line, Z.position)]

ScanPanicked(Z) == [Z EXCEPT !.st = "panic"]

\* source.chars().skip(start).take(count).collect()
SkipTake(src, start, count) ==
    SubSeq(src, start + 1,
           IF start + count <= Len(src) THEN start + count ELSE Len(src))

\* Scanner::add_token
add_token(src, start, Z, token_type, literal) ==
    [Z EXCEPT !.tokens =
                  Append(@, Token(token_type,
                                  SkipTake(src, start, Z.i - start),
                                  Z.line, Z.position, literal)),
              !.starts = Append(@, start)]

\* Scanner::advance, once the character is known to exist
Advanced(Z) == [Z EXCEPT !.i = @ + 1, !.position = @ + 1]

\* Scanner::matches_next: whether the next character is c (when true the
\* character is consumed); a panic when chars().nth() is None
MatchesNext(src, Z, c) ==
    IF eof(src, Z.i) THEN "no"
    ELSE IF CharAt(src, Z.i) = NoChar THEN "panic"
    ELSE IF CharAt(src, Z.i) # c THEN "no"
    ELSE "yes"

\* an operator arm of scan_token: `second` after the first character makes
\* the token `double`, otherwise the token is `single`
OneOrTwo(src, start, Z, second, double, single) ==
    CASE MatchesNext(src, Z, second) = "yes" ->
            add_token(src, start, Advanced(Z), double, NoLiteral)
      [] MatchesNext(src, Z, second) = "panic" -> ScanPanicked(Z)
      [] OTHER -> add_token(src, start, Z, single, NoLiteral)

\* the arms of `>` and `<`: `=`, then the character itself, then alone
OneOrTwoOrShift(src, start, Z, c, or_equal, shift, single) ==
    CASE MatchesNext(src, Z, "=") = "yes" ->
            add_token(src, start, Advanced(Z), or_equal, NoLiteral)
      [] MatchesNext(src, Z, "=") = "panic" -> ScanPanicked(Z)
      [] OTHER -> OneOrTwo(src, start, Z, c, shift, single)

RECURSIVE CommentLoop(_, _)
\* the loop of the `//` arm of scan_token
CommentLoop(src, Z) ==
    IF Scanner_lookahead(src, Z.i) = NoChar THEN ScanPanicked(Z)
    ELSE IF Scanner_lookahead(src, Z.i) # "\n" /\ ~eof(src, Z.i)
    THEN CommentLoop(src, Advanced(Z))
    ELSE Z

RECURSIVE StringLoop(_, _)
\* the loop of Scanner::string_literal
StringLoop(src, Z) ==
    IF Scanner_lookahead(src, Z.i) = NoChar THEN ScanPanicked(Z)
    ELSE IF Scanner_lookahead(src, Z.i) # "\"" /\ ~eof(src, Z.i)
    THEN StringLoop(
           src,
           Advanced(IF Scanner_lookahead(src, Z.i) = "\n"
                    THEN [Z EXCEPT !.line = @ + 1, !.position = 0]
                    ELSE Z))
    ELSE Z

\* Scanner::string_literal
string_literal(src, start, Z) ==
    LET L == StringLoop(src, Z)
    IN IF L.st = "panic" THEN L
       ELSE IF eof(src, L.i) THEN ScanFailed(L, "Unterminated string")
       ELSE IF CharAt(src, L.i) = NoChar THEN ScanPanicked(L)
       ELSE LET C == Advanced(L)
            IN add_token(src, start, C, "String",
                         StringLiteral(SkipTake(src, start + 1,
                                                C.i - start - 2)))

RECURSIVE DigitLoop(_, _)
\* `while lookahead().is_ascii_digit() { advance() }`
DigitLoop(src, Z) ==
    IF Scanner_lookahead(src, Z.i) = NoChar THEN ScanPanicked(Z)
    ELSE IF is_ascii_digit(Scanner_lookahead(src, Z.i))
    THEN DigitLoop(src, Advanced(Z))
    ELSE Z

RECURSIVE DigitsValue(_)
\* lexeme.parse::<i64>() of a run of digits (a run within MaxSourceLen
\* characters is far from the limits of i64, so the parse never fails)
DigitsValue(digits) ==
    IF digits = <<>> THEN 0
    ELSE 10 * DigitsValue(SubSeq(digits, 1, Len(digits) - 1))
           + IntegerOf(digits[Len(digits)])

\* TokenLiteral::Float(value), by its lexeme
FloatLiteral(lexeme) == [k |-> "Float", lexeme |-> lexeme]

\* Scanner::number_literal
number_literal(src, start, Z) ==
    LET W == DigitLoop(src, Z)
    IN IF W.st = "panic" THEN W
       ELSE IF Scanner_lookahead(src, W.i) = "."
       THEN LET D == Advanced(W)
            IN IF Scanner_lookahead(src, D.i) = NoChar THEN ScanPanicked(D)
               ELSE IF ~is_ascii_digit(Scanner_lookahead(src, D.i))
               THEN ScanFailed(D, "Invalid number")
               ELSE LET F == DigitLoop(src, D)
                    IN IF F.st = "panic" THEN F
                       ELSE add_token(src, start, F, "Float",
                                FloatLiteral(SkipTake(src, start,
                                                      F.i - start)))
       ELSE add_token(src, start, W, "Integer",
                      IntegerLiteral(DigitsValue(
                          SkipTake(src, start, W.i - start))))

RECURSIVE AlphanumericLoop(_, _)
\* the loop of Scanner::identifier_or_keyword
AlphanumericLoop(src, Z) ==
    IF Scanner_lookahead(src, Z.i) = NoChar THEN ScanPanicked(Z)
    ELSE IF is_ascii_alphanumeric(Scanner_lookahead(src, Z.i))
    THEN AlphanumericLoop(src, Advanced(Z))
    ELSE Z

\* Scanner::identifier_or_keyword
identifier_or_keyword(src, start, Z) ==
    LET W == AlphanumericLoop(src, Z)
        value == SkipTake(src, start, W.i - start)
    IN IF W.st = "panic" THEN W
       ELSE IF \E keyword \in KEYWORDS : keyword.text = value
       THEN add_token(src, start, W,
                (CHOOSE keyword \in KEYWORDS : keyword.text = value)
                    .token_type,
                NoLiteral)
       ELSE add_token(src, start, W, "Identifier", StringLiteral(value))

\* the token type of the single-character arms of scan_token
SingleCharacter(c) ==
    CASE c = "(" -> "LeftParen"
      [] c = ")" -> "RightParen"
      [] c = "{" -> "LeftBrace"
      [] c = "}" -> "RightBrace"
      [] c = "," -> "Comma"
      [] c = "." -> "Dot"
      [] c = "-" -> "Minus"
      [] c = "+" -> "Plus"
      [] c = ";" -> "SemiColon"
      [] c = "*" -> "Star"
      [] c = "^" -> "BitwiseXor"
      [] c = "~" -> "BitwiseNot"
      [] OTHER -> "None"

\* Scanner::scan_token, from the scan state at the call
scan_token(src, start, Z0) ==
    IF CharAt(src, Z0.i) = NoChar THEN ScanPanicked(Z0)
    ELSE
    LET c == CharAt(src, Z0.i)
        Z == Advanced(Z0)
    IN CASE SingleCharacter(c) # "None" ->
               add_token(src, start, Z, SingleCharacter(c), NoLiteral)
         [] c = "&" -> OneOrTwo(src, start, Z, "&", "And", "BitwiseAnd")
         [] c = "|" -> OneOrTwo(src, start, Z, "|", "Or", "BitwiseOr")
         [] c = "!" -> OneOrTwo(src, start, Z, "=", "BangEqual", "Bang")
         [] c = "=" -> OneOrTwo(src, start, Z, "=", "DoubleEqual", "Equal")
         [] c = ">" -> OneOrTwoOrShift(src, start, Z, ">", "GreaterEqual",
                                       "RightShift", "Greater")
         [] c = "<" -> OneOrTwoOrShift(src, start, Z, "<", "LessEqual",
                                       "LeftShift", "Less")
         [] c = "/" ->
               CASE MatchesNext(src, Z, "/") = "yes" ->
                       CommentLoop(src, Advanced(Z))
                 [] MatchesNext(src, Z, "/") = "panic" -> ScanPanicked(Z)
                 [] OTHER -> add_token(src, start, Z, "Slash", NoLiteral)
         [] c \in {" ", "\r", "\t"} -> Z
         [] c = "\n" -> [Z EXCEPT !.line = @ + 1, !.position = 0]
         [] c = "\"" -> string_literal(src, start, Z)
         [] is_ascii_digit(c) -> number_literal(src, start, Z)
         [] c \in Letters -> identifier_or_keyword(src, start, Z)
         [] OTHER -> ScanFailed(Z, "Unknown token")

-----------------------------------------------------------------------------
(***************************************************************************)
(* Parser inputs                                                           *)
(***************************************************************************)

\* longest expression, in tokens, of the generated expression statements
MaxExprTokens == 5

ExprAlphabet == {"1", "+", "-", "*", "/", "(", ")"}

SeqsUpTo(S, n) == UNION {[1..k -> S] : k \in 0..n}

\* expression statements `e ;` over ExprAlphabet
ExprStatementSources ==
    {e \o <<";">> : e \in SeqsUpTo(ExprAlphabet, MaxExprTokens)}

\* well-formed statements
GoodStatementSources ==
    { <<"1", ";">>,
      <<"x", "=", "1", ";">>,
      <<"x", ":=", "1", ";">>,
      <<"if", "true", "{", "1", ";", "}">>,
      <<"{", "1", ";", "}">> }

\* statements with one syntax error each: a well-formed statement with one
\* token missing, added or replaced
FaultyStatementSources ==
    { <<"1", "+", ";">>,                        \* operand missing
      <<"(", "1", ";">>,                        \* `)` missing
      <<"1", "=", "2", ";">>,                   \* invalid assignment target
      <<"1", "2", ";">>,                        \* operator missing
      <<"x", ":=", ";">>,                       \* initializer missing
      <<"if", "true", ";">>,                    \* block missing
      <<"if", "true", "{", "1", "+", ";", "}">>,\* operand missing in a block
      <<"{", "1", "+", ";", "}">> }             \* operand missing in a block

StatementSources == GoodStatementSources \cup FaultyStatementSources

\* source units of one or two statements
UnitSources ==
    StatementSources \cup {a \o b : a, b \in StatementSources}
        \cup {<<"1", "+", "1">>, <<"1", "+", "1", "2", ";">>}

\* the examples of the specification
ExampleSources ==
    { <<"1", "+", "2", "*", "3", ";">>,
      <<"1", "*", "2", "+", "3", "/", "4", "-", "5", "*",
        "(", "(", "6", "-", "7", ")", "/", "(", "8", "+", "9", ")", ")", ";">>,
      <<"(", "1", "+", "2", ")", "*", "3", ";">>,
      <<"8", "-", "3", "-", "2", ";">>,
      <<"false", "&&", "(", "1", "/", "0", "==", "0", ")", ";">>,
      <<"true", "||", "(", "1", "/", "0", "==", "0", ")", ";">> }

\* the binary operators of one precedence level each
ChainLevels ==
    { {"+", "-"}, {"*", "/"}, {"<", "<=", ">", ">="}, {"==", "!="} }

\* chains `8 op 3 op 2 ;` and `8 op 3 op 2 op 1 ;` of operators of one level
ChainSources ==
    UNION {
        {<<"8", o1, "3", o2, "2", ";">> : o1, o2 \in ops}
          \cup {<<"8", o1, "3", o2, "2", o3, "1", ";">> : o1, o2, o3 \in ops}
        : ops \in ChainLevels }

\* chains of assignments
AssignmentChainSources ==
    { <<"x", "=", "3", ";">>,
      <<"x", "=", "y", "=", "3", ";">>,
      <<"x", "=", "y", "=", "z", "=", "3", ";">> }

\* expressions that are not a variable
NonTargets ==
    { <<"1">>, <<"\"1\"">>, <<"true">>, <<"(", "x", ")">>, <<"-", "x">>,
      <<"x", "+", "1">>, <<"x", "==", "1">>, <<"x", "&&", "y">> }

\* what may stand before an assignment in an expression statement
AssignmentPrefixes == { <<>>, <<"x", "=">>, <<"x", "=", "y", "=">> }

\* `prefix target = value ;` with a target that is not a variable
InvalidTargetSources ==
    { prefix \o target \o <<"=">> \o value \o <<";">> :
        prefix \in AssignmentPrefixes, target \in NonTargets,
        value \in {<<"3">>, <<"y", "=", "3">>} }

\* statements that start with an identifier: declarations of both forms,
\* assignments, and malformed ones
IdentifierStatementSources ==
    { <<"x", ":=", "1", ";">>,
      <<"x", ":=", "y", "=", "1", "+", "2", ";">>,
      <<"y", ":", "z", "=", "2", ";">>,
      <<"y", ":", "z", "=", "(", "x", "+", "2", ")", "*", "3", ";">>,
      <<"x", "=", "3", ";">>,
      <<"x", "==", "3", ";">>,
      <<"x", ";">>,
      <<"x", ":", "y", ":=", "1", ";">>,
      <<"x", ":", "=", "1", ";">>,
      <<"x", ":", "y", ";">>,
      <<"x", ":=", ";">>,
      <<"x", ":=", "1">>,
      <<"y", ":", "z", "=", "2">> }

\* one, two or three of them
DeclarationSources ==
    IdentifierStatementSources
      \cup {a \o b : a, b \in IdentifierStatementSources}
      \cup { <<"x", ":=", "1", ";", "y", ":", "z", "=", "2", ";",
               "x", "=", "3", ";">> }

\* the keywords said to introduce a loop
LoopKeywords == {"for", "while"}

\* `keyword condition { body }`, as the lexemes of the condition and of the
\* body
LoopConditions == { <<"x", "<", "3">>, <<"true">>, <<"(", "x", ")">> }

LoopBodies ==
    { <<>>, <<"x", "=", "x", "+", "1", ";">>,
      <<"y", ":=", "1", ";", "x", ";">> }

LoopSource(keyword, condition, body) ==
    <<keyword>> \o condition \o <<"{">> \o body \o <<"}">>

LoopSources ==
    { LoopSource(keyword, condition, body) :
        keyword \in LoopKeywords, condition \in LoopConditions,
        body \in LoopBodies }
      \cup { <<"for", "x", "<", "3", ";">>, <<"for", "{", "}">>,
             <<"for", "x", "{", "x", ";">> }

\* a statement that fails before any `;`, followed by a statement that a
\* keyword leads, or by an expression statement
RecoveryPrefixes ==
    { <<"(", "1">>, <<")">>, <<"1", "+", ")">>, <<"x", ":=", ")">>,
      <<"{", ")">> }

RecoveryStatements ==
    { <<"if", "true", "{", "1", ";", "}">>,
      <<"for", "true", "{", "1", ";", "}">>,
      <<"if", "true", "{", "}", "1", ";">>,
      <<"1", ";", "if", "true", "{", "}">>,
      <<"2", ";", "3", ";">> }

RecoverySources == {a \o b : a \in RecoveryPrefixes, b \in RecoveryStatements}

ParserSources ==
    ExprStatementSources \cup UnitSources \cup ExampleSources
        \cup ChainSources \cup AssignmentChainSources
        \cup InvalidTargetSources \cup DeclarationSources
        \cup LoopSources
        \cup RecoverySources

-----------------------------------------------------------------------------
(***************************************************************************)
(* Parser::parse as a state machine: one step per iteration of its loop    *)
(***************************************************************************)

Running == [st |-> "Running"]

ParserIdle ==
    /\ tokens = <<>> /\ current_index = 0 /\ statements = <<>>
    /\ errors = <<>> /\ parse_result = Running

InterpIdle ==
    /\ environment = EmptyEnvironment /\ program = <<>> /\ outcome = Running
    /\ log = <<>> /\ entries = 0

ScannerIdle ==
    /\ source = <<>> /\ scan_current_index = 0 /\ start_index = 0
    /\ line = 0 /\ position = 0 /\ scan_tokens = <<>>
    /\ token_starts = <<>> /\ scan_result = Running

SourceIdle ==
    /\ source_text = <<>> /\ chars = 0 /\ source_current_index = 0
    /\ lexeme_start = 0 /\ popped_lexemes = <<>> /\ source_status = "ok"

\* token vectors that hold an Eof token before the last one: the tokens
\* of two sources, one after the other
TwoUnitTokens ==
    { Tokens(a) \o Tokens(b) :
        a \in {<<>>, <<"1", ";">>, <<"1">>, <<"1", "+">>, <<"{", "1", ";">>,
                <<"if", "true", "{">>, <<"x", ":=">>, <<"(", "1">>},
        b \in {<<"2", ";">>, <<")", "2", ";">>} }

ParserTokens == {Tokens(src) : src \in ParserSources} \cup TwoUnitTokens

\* Parser::new and the first lines of Parser::parse
ParserInit ==
    /\ tokens \in {Tokens(src) : src \in ParserSources}
    /\ current_index = 0
    /\ statements = <<>>
    /\ errors = <<>>
    /\ parse_result = Running
    /\ InterpIdle
    /\ ScannerIdle
    /\ SourceIdle

\* an iteration of the loop of Parser::parse whose statement() returns Ok
ParseStatementOk ==
    /\ parse_result = Running
    /\ ~is_end(tokens, current_index)
    /\ LET result == Parser_statement(tokens, current_index)
       IN /\ result.st = "ok"
          /\ statements' = Append(statements, result.v)
          /\ current_index' = result.i
    /\ UNCHANGED <<tokens, errors, parse_result, interp_vars, scanner_vars,
                   source_vars>>

\* an iteration of the loop of Parser::parse whose statement() returns Err:
\* the error is recorded and sync() runs
ParseStatementErr ==
    /\ parse_result = Running
    /\ ~is_end(tokens, current_index)
    /\ LET result == Parser_statement(tokens, current_index)
       IN /\ result.st = "err"
          /\ errors' = Append(errors, result.v)
          /\ current_index' = sync(tokens, result.i)
    /\ UNCHANGED <<tokens, statements, parse_result, interp_vars,
                   scanner_vars, source_vars>>

\* the end of Parser::parse
ParseReturn ==
    /\ parse_result = Running
    /\ is_end(tokens, current_index)
    /\ parse_result' = ParseReturnValue(statements, errors)
    /\ UNCHANGED <<tokens, current_index, statements, errors, interp_vars,
                   scanner_vars, source_vars>>

ParserNext == ParseStatementOk \/ ParseStatementErr \/ ParseReturn

SpecParser == ParserInit /\ [][ParserNext]_vars

\* Parser::new on any token vector that ends with Eof, and the first lines
\* of Parser::parse
ParserTokensInit ==
    /\ tokens \in ParserTokens
    /\ current_index = 0
    /\ statements = <<>>
    /\ errors = <<>>
    /\ parse_result = Running
    /\ InterpIdle
    /\ ScannerIdle
    /\ SourceIdle

SpecParserTokens == ParserTokensInit /\ [][ParserNext]_vars

\* parse is one sequential call: as long as it has not returned, its loop
\* goes on.  This is weak fairness of ParserNext, which is enabled exactly
\* while parse_result is Running (`while !self.is_end()` either runs an
\* iteration or falls through to the return).
SpecParserFair ==
    /\ ParserTokensInit
    /\ [][ParserNext]_vars
    /\ ([]<>(parse_result # Running) \/ []<><<ParserNext>>_vars)

-----------------------------------------------------------------------------
(***************************************************************************)
(* Interpreter inputs and state machine: a session of the REPL of main.rs, *)
(* which interprets one parsed entry after the other in a root environment *)
(* that keeps its values from entry to entry.                              *)
(***************************************************************************)

\* most entries of a session
MaxEntries == 3

\* statements, as lexemes
InterpStatementSources ==
    { <<"x", ":=", "1", ";">>,
      <<"y", ":=", "5", ";">>,
      <<"x", ":=", "y", ";">>,
      <<"y", ":=", "x", "=", "2", ";">>,
      <<"x", "=", "2", ";">>,
      <<"x", "=", "y", ";">>,
      <<"y", "=", "x", "+", "1", ";">>,
      <<"x", ";">>,
      <<"{", "x", ":=", "2", ";", "}">>,
      <<"{", "y", ":=", "5", ";", "x", "=", "y", ";", "}">>,
      <<"{", "y", ":=", "x", "=", "2", ";", "}">>,
      <<"{", "x", ":=", "2", ";", "{", "y", ":=", "x", ";", "x", "=", "3",
        ";", "}", "}">>,
      <<"{", "{", "x", "=", "y", ";", "}", "}">>,
      <<"{", "x", ":=", "1", ";", "x", ":=", "2", ";", "y", "=", "7", ";",
        "}">>,
      <<"{", "y", "=", "1", "/", "0", ";", "x", "=", "7", ";", "}">>,
      <<"for", "x", "<", "3", "{", "x", "=", "x", "+", "1", ";", "}">>,
      <<"for", "1", "==", "1", "{", "x", ":=", "1", ";", "y", "=", "y", "+",
        "x", ";", "}">>,
      <<"for", "x", "<", "3", "{", "x", "=", "x", "+", "1", ";", "y", "=",
        "\"1\"", "+", "1", ";", "y", "=", "7", ";", "}">>,
      <<"for", "x", "<", "3", "{", "y", ":=", "x", ";", "x", "=", "x", "+",
        "1", ";", "}">>,
      <<"i", ":=", "0", ";",
        "for", "i", "<", "3", "{", "i", "=", "i", "+", "1", ";", "}">>,
      <<"if", "x", "==", "1", "{", "x", "=", "2", ";", "}", "else", "{",
        "y", ":=", "3", ";", "z", "=", "1", ";", "x", "=", "1", ";", "}">>,
      <<"if", "x", "{", "x", "=", "2", ";", "}">>,
      <<"1", "==", "\"1\"", ";">>,
      <<"-", "x", ";">>,
      <<"!", "x", ";">>,
      <<"1", "/", "0", ";">>,
      <<"7", "/", "-", "2", ";">>,
      <<"false", "&&", "(", "1", "/", "0", "==", "0", ")", ";">>,
      <<"true", ";">>,
      <<"1", "==", "2", "&&", "(", "1", "/", "0", "==", "0", ")", ";">>,
      <<"1", "==", "1", "||", "(", "1", "/", "0", "==", "0", ")", ";">>,
      <<"1", "==", "1", "&&", "(", "1", "/", "0", "==", "0", ")", ";">>,
      <<"1", "==", "2", "||", "(", "x", "=", "3", ")", "==", "1", ";">>,
      <<"1", "==", "1", "&&", "x", "==", "1", "||", "(", "y", "=", "2", ")",
        ";">>,
      <<"x", "&&", "(", "y", "=", "2", ")", ";">>,
      <<"x", "<", "2", "||", "1", ";">> }

\* operands of the kinds Number (Integer and Float), String and Boolean,
\* and one whose value is Value::Empty
EqualityOperands ==
    { <<"1">>, <<"1.0">>, <<"1.5">>, <<"\"1\"">>, <<"\"2\"">>,
      <<"(", "1", "==", "1", ")">>, <<"(", "1", "==", "2", ")">>,
      <<"(", "x", "=", "1", ")">> }

\* `a == b ;` and `a != b ;`
EqualityStatementSources ==
    { a \o <<op>> \o b \o <<";">> :
        a \in EqualityOperands, b \in EqualityOperands,
        op \in {"==", "!="} }
      \cup { <<"0.5", "+", "1", "==", "1.5", ";">>,
             <<"1.5", "*", "2", "==", "3", ";">>,
             <<"-", "1.5", "<", "1", ";">>,
             <<"1.5", "-", "0.5", "!=", "1", ";">> }

\* the statements that start a two-statement entry
FirstStatementSources ==
    { <<"x", ":=", "1", ";">>,
      <<"x", "=", "y", ";">>,
      <<"y", ":=", "5", ";">>,
      <<"1", "/", "0", ";">>,
      <<"1", "==", "\"1\"", ";">>,
      <<"{", "y", ":=", "5", ";", "x", "=", "y", ";", "}">>,
      <<"for", "x", "<", "3", "{", "x", "=", "x", "+", "1", ";", "}">> }

\* the statements that end a two-statement entry
SecondStatementSources ==
    { <<"x", ":=", "1", ";">>,
      <<"x", "=", "2", ";">>,
      <<"y", "=", "x", "+", "1", ";">>,
      <<"{", "y", ":=", "5", ";", "x", "=", "y", ";", "}">>,
      <<"{", "y", ":=", "x", "=", "2", ";", "}">>,
      <<"x", ";">> }

\* the entries of a session, as lexemes
EntrySources ==
    InterpStatementSources \cup EqualityStatementSources
      \cup {a \o b : a \in FirstStatementSources,
                     b \in SecondStatementSources}
      \cup {<<>>}

\* the statements of an entry: what run() of main.rs hands to the
\* interpreter when the entry parses
Programs ==
    {result.statements :
        result \in {r \in {parse(Tokens(src)) : src \in EntrySources} :
                        r.st = "Ok"}}

\* the result of an interpret call, from its last evaluation state
Outcome(R) ==
    CASE R.st = "ok" -> [st |-> "Ok", value |-> R.value]
      [] R.st = "err" -> [st |-> "Err", message |-> R.message]
      [] R.st = "panic" -> [st |-> "Panic", message |-> R.message]
      [] R.st = "timeout" -> [st |-> "Timeout"]

InterpInit ==
    /\ environment = EmptyEnvironment
    /\ program = <<>>
    /\ outcome = Running
    /\ log = <<>>
    /\ entries = 0
    /\ ParserIdle
    /\ ScannerIdle
    /\ SourceIdle

\* a call of Interpreter::interpret on the statements of an entry, in a
\* root environment that keeps its values from entry to entry (repl() of
\* main.rs carries them over in prev_environment).  A panic ends the
\* process, and an entry whose loop does not end within MaxIterations is
\* not followed further.
Interpret ==
    /\ entries < MaxEntries
    /\ outcome.st \notin {"Panic", "Timeout"}
    /\ \E p \in Programs :
          LET R == interpret(NewEvaluation(environment), 1, p)
          IN /\ program' = p
             /\ environment' = R.envs[1]
             /\ outcome' = Outcome(R)
             /\ log' = R.log
    /\ entries' = entries + 1
    /\ UNCHANGED <<parser_vars, scanner_vars, source_vars>>

InterpNext == Interpret

SpecInterp == InterpInit /\ [][InterpNext]_vars

-----------------------------------------------------------------------------
(***************************************************************************)
(* Scanner inputs and state machine: one call of Scanner::scan             *)
(***************************************************************************)

\* most characters of a source
MaxSourceLen == 4

ScannerAlphabet == {"1", "a", " ", "\n", ";", "=", "\"", "é", "."}

ScannerExamples ==
    { <<"1", "5", ";">>,
      <<"m", "y", "_", "v", "a", "r", "i", "a", "b", "l", "e">>,
      <<"w", "h", "i", "l", "e", " ", "w", "h", "i", "l", "e", "1">>,
      <<"t", "r", "u", "e", ";">>,
      <<"f", "a", "l", "s", "e", ";", "1", ".", "5", ";", "\"", "a", "\"">>,
      <<"m", "y", "_", "v", "a", "r", "i", "a", "b", "l", "e", " ", ":", "=",
        " ", "1", "5", ";">>,
      <<"a", "a", " ", "=", "\n", " ", " ", "1", "5", ";", "\n">>,
      <<"i", "f", " ", "a", " ", "/", "/", "a", "\n", "1", ".", "5", ">",
        ">", "1", ".">> }

\* the characters of the operators of one or two characters, and a digit
OperatorAlphabet == {"=", "!", ">", "<", "&", "|", ":", "1"}

\* longest source over OperatorAlphabet
MaxOperatorSourceLen == 3

\* characters of identifiers and keywords, and a space
WordAlphabet == {"i", "f", "_", "1", " "}

\* longest source over WordAlphabet
MaxWordSourceLen == 3

ScannerSources ==
    SeqsUpTo(ScannerAlphabet, MaxSourceLen) \cup ScannerExamples
        \cup SeqsUpTo(OperatorAlphabet, MaxOperatorSourceLen)
        \cup SeqsUpTo(WordAlphabet, MaxWordSourceLen)

\* the locals of Scanner::scan, as scan_token receives them
ScanState ==
    [i |-> scan_current_index, line |-> line, position |-> position,
     tokens |-> scan_tokens, starts |-> token_starts, st |-> "ok",
     error |-> ScannerError("", 0, 0)]

\* the first lines of Scanner::scan
ScannerInit ==
    /\ source \in ScannerSources
    /\ scan_current_index = 0
    /\ start_index = 0
    /\ line = 0
    /\ position = 0
    /\ scan_tokens = <<>>
    /\ token_starts = <<>>
    /\ scan_result = Running
    /\ ParserIdle
    /\ InterpIdle
    /\ SourceIdle

\* what an iteration of the loop of Scanner::scan leaves in the locals
ScanLocals(R) ==
    /\ start_index' = scan_current_index
    /\ scan_current_index' = R.i
    /\ line' = R.line
    /\ position' = R.position
    /\ scan_tokens' = R.tokens
    /\ token_starts' = R.starts

\* an iteration of the loop of Scanner::scan whose scan_token returns Ok
ScanTokenOk ==
    /\ scan_result = Running
    /\ ~eof(source, scan_current_index)
    /\ LET R == scan_token(source, scan_current_index, ScanState)
       IN /\ R.st = "ok"
          /\ ScanLocals(R)
    /\ UNCHANGED <<source, scan_result, parser_vars, interp_vars,
                   source_vars>>

\* an iteration whose scan_token returns Err: scan returns the error
ScanTokenErr ==
    /\ scan_result = Running
    /\ ~eof(source, scan_current_index)
    /\ LET R == scan_token(source, scan_current_index, ScanState)
       IN /\ R.st = "err"
          /\ ScanLocals(R)
          /\ scan_result' = [st |-> "Err", error |-> R.error]
    /\ UNCHANGED <<source, parser_vars, interp_vars,
                   source_vars>>

\* an iteration whose scan_token panics
ScanTokenPanic ==
    /\ scan_result = Running
    /\ ~eof(source, scan_current_index)
    /\ LET R == scan_token(source, scan_current_index, ScanState)
       IN /\ R.st = "panic"
          /\ ScanLocals(R)
          /\ scan_result' = [st |-> "Panic"]
    /\ UNCHANGED <<source, parser_vars, interp_vars,
                   source_vars>>

\* the end of Scanner::scan: the Eof token is added and Ok(tokens) returned
ScanReturn ==
    /\ scan_result = Running
    /\ eof(source, scan_current_index)
    /\ LET R == add_token(source, start_index, ScanState, "Eof", NoLiteral)
       IN /\ scan_tokens' = R.tokens
          /\ token_starts' = R.starts
          /\ scan_result' = [st |-> "Ok", tokens |-> R.tokens]
    /\ UNCHANGED <<source, scan_current_index, start_index, line, position,
                   parser_vars, interp_vars,
                   source_vars>>

ScannerNext == ScanTokenOk \/ ScanTokenErr \/ ScanTokenPanic \/ ScanReturn

SpecScanner == ScannerInit /\ [][ScannerNext]_vars

-----------------------------------------------------------------------------
(***************************************************************************)
(* Source (source.rs): a cursor over a &str.  current_index counts the     *)
(* calls of next(); pop_lexeme slices the text by byte offsets.            *)
(***************************************************************************)

\* the byte offset at which the character of index k starts
ByteOffset(src, k) == SourceLen(SubSeq(src, 1, k))

\* str::is_char_boundary
is_char_boundary(src, offset) ==
    \E k \in 0..Len(src) : ByteOffset(src, k) = offset

\* the number of characters that precede a character boundary
CharsBefore(src, offset) ==
    CHOOSE k \in 0..Len(src) : ByteOffset(src, k) = offset

\* &source[from..to]: a panic unless from <= to <= source.len() and both are
\* character boundaries.  A negative `from` stands for `lexeme_start - 1`
\* at lexeme_start = 0: the subtraction panics where overflow is checked,
\* and wraps to usize::MAX, which is past the end, where it is not.
Slice(src, from, to) ==
    IF \/ from < 0 \/ from > to \/ to > SourceLen(src)
       \/ ~is_char_boundary(src, from) \/ ~is_char_boundary(src, to)
    THEN [st |-> "panic"]
    ELSE [st |-> "ok",
          lexeme |-> SubSeq(src, CharsBefore(src, from) + 1,
                            CharsBefore(src, to))]

\* Source::pop_lexeme, the slice it takes.  Its debug assertions do not
\* change the outcome: current_index >= lexeme_start always holds, and when
\* lexeme_start > source.len() the slice panics as the assertion would.
pop_lexeme(src, current, start) ==
    IF current = SourceLen(src) THEN Slice(src, start - 1, SourceLen(src))
    ELSE IF start = current THEN Slice(src, start - 1, current)
    ELSE Slice(src, start, current)

\* Source::peek
peek(src, yielded) == CharAt(src, yielded)

MaxTextLen == 3

\* calls of next() after the iterator is exhausted
MaxNextPastEnd == 1

\* calls of pop_lexeme on one Source
MaxPops == 3

SourceAlphabet == {"a", "b", "é"}

SourceTexts == SeqsUpTo(SourceAlphabet, MaxTextLen)

\* Source::new
SourceInit ==
    /\ source_text \in SourceTexts
    /\ chars = 0
    /\ source_current_index = 0
    /\ lexeme_start = 0
    /\ popped_lexemes = <<>>
    /\ source_status = "ok"
    /\ ParserIdle
    /\ InterpIdle
    /\ ScannerIdle

\* Iterator::next for Source
SourceNext ==
    /\ source_status = "ok"
    /\ source_current_index < Len(source_text) + MaxNextPastEnd
    /\ source_current_index' = source_current_index + 1
    /\ chars' = IF chars < Len(source_text) THEN chars + 1 ELSE chars
    /\ UNCHANGED <<source_text, lexeme_start, popped_lexemes, source_status,
                   parser_vars, interp_vars, scanner_vars>>

\* a call of Source::pop_lexeme that returns
SourcePopLexeme ==
    /\ source_status = "ok"
    /\ Len(popped_lexemes) < MaxPops
    /\ LET r == pop_lexeme(source_text, source_current_index, lexeme_start)
       IN /\ r.st = "ok"
          /\ popped_lexemes' = Append(popped_lexemes, r.lexeme)
    /\ lexeme_start' = source_current_index
    /\ UNCHANGED <<source_text, chars, source_current_index, source_status,
                   parser_vars, interp_vars, scanner_vars>>

\* a call of Source::pop_lexeme that panics
SourcePopLexemePanics ==
    /\ source_status = "ok"
    /\ Len(popped_lexemes) < MaxPops
    /\ pop_lexeme(source_text, source_current_index, lexeme_start).st
           = "panic"
    /\ source_status' = "panic"
    /\ UNCHANGED <<source_text, chars, source_current_index, lexeme_start,
                   popped_lexemes, parser_vars, interp_vars, scanner_vars>>

SourceNextStep == SourceNext \/ SourcePopLexeme \/ SourcePopLexemePanics

SpecSource == SourceInit /\ [][SourceNextStep]_vars

-----------------------------------------------------------------------------
(***************************************************************************)
(* Claims about the parser                                                 *)
(***************************************************************************)

ParseDone == parse_result # Running

\* C7 (as claimed): a source unit of two faulty statements, each with one
\* syntax error, makes Parser::parse return exactly two errors, the first
\* carrying a token of the first statement and the second a token of the
\* second statement.
C7_TwoErrorsForTwoFaultyStatements ==
    \A a, b \in FaultyStatementSources :
        (ParseDone /\ tokens = Tokens(a \o b)) =>
            /\ parse_result.st = "Err"
            /\ Len(parse_result.errors) = 2
            /\ parse_result.errors[1].token.position \in 1..Len(a)
            /\ parse_result.errors[2].token.position
                  \in (Len(a) + 1)..(Len(a) + Len(b))

\* C8: Parser::parse returns Ok(statements) if and only if no error was
\* recorded during the pass; otherwise it returns Err with every recorded
\* error in the order of recording (which is the order of the offending
\* tokens in the source), and no statement list.
C8_OkIffNoErrorRecorded ==
    ParseDone =>
        /\ parse_result.st = "Ok" <=> errors = <<>>
        /\ parse_result.st = "Ok" => parse_result.statements = statements
        /\ parse_result.st = "Err" =>
              /\ parse_result.errors = errors
              /\ "statements" \notin DOMAIN parse_result
              /\ \A k \in 1..(Len(errors) - 1) :
                    errors[k].token.position <= errors[k + 1].token.position

\* C8 witness: a finished parse that recorded an error although another
\* statement parsed correctly.
C8_Witness ==
    ParseDone /\ parse_result.st = "Err" /\ Len(statements) > 0

RECURSIVE Unparse(_)
\* the tokens of an expression tree, in source order
Unparse(e) ==
    CASE e.type \in {"Literal", "Variable"} -> <<e.value>>
      [] e.type = "Grouping" -> Unparse(e.expression)
      [] e.type = "Unary" -> <<e.operator>> \o Unparse(e.left)
      [] e.type \in {"Binary", "Logical"} ->
            Unparse(e.left) \o <<e.operator>> \o Unparse(e.right)
      [] e.type = "Assignment" -> <<e.identifier>> \o Unparse(e.value)

RECURSIVE Groupings(_)
\* the number of Grouping nodes of an expression tree
Groupings(e) ==
    CASE e.type \in {"Literal", "Variable"} -> 0
      [] e.type = "Grouping" -> 1 + Groupings(e.expression)
      [] e.type = "Unary" -> Groupings(e.left)
      [] e.type \in {"Binary", "Logical"} ->
            Groupings(e.left) + Groupings(e.right)
      [] e.type = "Assignment" -> Groupings(e.value)

IsAdditive(e) ==
    e.type = "Binary" /\ e.operator.token_type \in {"Plus", "Minus"}

IsMultiplicative(e) ==
    e.type = "Binary" /\ e.operator.token_type \in {"Star", "Slash"}

RECURSIVE FactorsBindTighter(_)
\* no `*` or `/` node has a `+` or `-` node as a direct operand
FactorsBindTighter(e) ==
    CASE e.type \in {"Literal", "Variable"} -> TRUE
      [] e.type = "Grouping" -> FactorsBindTighter(e.expression)
      [] e.type = "Unary" -> FactorsBindTighter(e.left)
      [] e.type \in {"Binary", "Logical"} ->
            /\ IsMultiplicative(e) => ~IsAdditive(e.left) /\ ~IsAdditive(e.right)
            /\ FactorsBindTighter(e.left)
            /\ FactorsBindTighter(e.right)
      [] e.type = "Assignment" -> FactorsBindTighter(e.value)

\* the tokens of `toks` that are neither parentheses, `;` nor Eof
Operative(toks) ==
    SelectSeq(toks, LAMBDA t : t.token_type \notin
                 {"LeftParen", "RightParen", "SemiColon", "Eof"})

ParenCount(toks) ==
    Cardinality({k \in 1..Len(toks) : toks[k].token_type = "LeftParen"})

ArithmeticTypes ==
    {"Integer", "Plus", "Minus", "Star", "Slash", "LeftParen", "RightParen",
     "SemiColon", "Eof"}

\* the source unit is one expression statement of literals, + - * / and
\* parentheses, and it parsed
ArithmeticStatementParsed ==
    /\ ParseDone
    /\ parse_result.st = "Ok"
    /\ Len(parse_result.statements) = 1
    /\ \A k \in 1..Len(tokens) : tokens[k].token_type \in ArithmeticTypes

LiteralNode(e, n) ==
    e.type = "Literal" /\ e.value.literal = IntegerLiteral(n)

\* C10: in the tree of an expression statement built from literals, + - * /
\* and parentheses, the operators and operands appear in source order, no
\* `*` or `/` node has a `+` or `-` node as a direct operand (so `*` and `/`
\* bind tighter), and there is one Grouping node per pair of parentheses;
\* `1 + 2 * 3;` parses to Binary(+, 1, Binary(*, 2, 3)).
C10_FactorsBindTighterThanTerms ==
    /\ ArithmeticStatementParsed =>
          LET e == parse_result.statements[1].expression
          IN /\ parse_result.statements[1].type = "Expression"
             /\ Unparse(e) = Operative(tokens)
             /\ FactorsBindTighter(e)
             /\ Groupings(e) = ParenCount(tokens)
    /\ (ParseDone /\ tokens = Tokens(<<"1", "+", "2", "*", "3", ";">>)) =>
          /\ parse_result.st = "Ok"
          /\ LET e == parse_result.statements[1].expression
             IN /\ e.type = "Binary" /\ e.operator.token_type = "Plus"
                /\ LiteralNode(e.left, 1)
                /\ e.right.type = "Binary"
                /\ e.right.operator.token_type = "Star"
                /\ LiteralNode(e.right.left, 2)
                /\ LiteralNode(e.right.right, 3)

\* C10 witness: a parsed statement that mixes the two levels and has a
\* parenthesised operand of `*`.
C10_Witness ==
    /\ ArithmeticStatementParsed
    /\ LET e == parse_result.statements[1].expression
       IN /\ IsMultiplicative(e)
          /\ e.left.type = "Grouping"
          /\ IsAdditive(e.left.expression)

BinaryLevels == {"factor", "term", "comparison", "equality"}

\* two Binary nodes have operators of the same precedence level
SameLevel(a, b) ==
    \E level \in BinaryLevels :
        /\ a.operator.token_type \in LevelTypes(level)
        /\ b.operator.token_type \in LevelTypes(level)

RECURSIVE LeftNested(_)
\* no Binary node has a Binary node of its own level as its right operand
LeftNested(e) ==
    CASE e.type \in {"Literal", "Variable"} -> TRUE
      [] e.type = "Grouping" -> LeftNested(e.expression)
      [] e.type = "Unary" -> LeftNested(e.left)
      [] e.type = "Binary" ->
            /\ ~(e.right.type = "Binary" /\ SameLevel(e, e.right))
            /\ LeftNested(e.left)
            /\ LeftNested(e.right)
      [] e.type = "Logical" -> LeftNested(e.left) /\ LeftNested(e.right)
      [] e.type = "Assignment" -> LeftNested(e.value)

RECURSIVE ChainTree(_, _)
\* the left-nested tree of the chain `t1 op t2 op .. tn` held by the first
\* 2n - 1 tokens of toks
ChainTree(toks, n) ==
    IF n = 1 THEN [type |-> "Literal", value |-> toks[1]]
    ELSE [type |-> "Binary", left |-> ChainTree(toks, n - 1),
          operator |-> toks[2 * n - 2],
          right |-> [type |-> "Literal", value |-> toks[2 * n - 1]]]

\* the source unit is one expression statement, and it parsed
ExpressionStatementParsed ==
    /\ ParseDone
    /\ parse_result.st = "Ok"
    /\ Len(parse_result.statements) = 1
    /\ parse_result.statements[1].type = "Expression"

\* C11: binary operators of one precedence level are left-associative: a
\* chain `a op b op c` of `+`/`-` (likewise `*`/`/`, comparison, equality)
\* parses to Binary(op, Binary(op, a, b), c), no parsed expression has a
\* Binary node of its own level as a right operand, and `8 - 3 - 2;`
\* evaluates to 3.
C11_ChainsAreLeftAssociative ==
    /\ ExpressionStatementParsed =>
          LeftNested(parse_result.statements[1].expression)
    /\ \A src \in ChainSources :
          (ParseDone /\ tokens = Tokens(src)) =>
              /\ ExpressionStatementParsed
              /\ parse_result.statements[1].expression
                    = ChainTree(tokens, Len(src) \div 2)
    /\ (ParseDone /\ tokens = Tokens(<<"8", "-", "3", "-", "2", ";">>)) =>
          /\ parse_result.st = "Ok"
          /\ Outcome(interpret(NewEvaluation(EmptyEnvironment), 1,
                               parse_result.statements))
                = [st |-> "Ok", value |-> IntegerLiteral(3)]

\* C11 witness: a parsed chain of three comparison operators.
C11_Witness ==
    /\ ExpressionStatementParsed
    /\ LET e == parse_result.statements[1].expression
       IN /\ e.type = "Binary" /\ e.operator.token_type = "GreaterEqual"
          /\ e.left.type = "Binary" /\ e.left.operator.token_type = "Less"
          /\ e.left.left.type = "Binary"
          /\ e.left.left.operator.token_type = "LessEqual"

RECURSIVE AssignmentChain(_, _)
\* the tree of `id = id = .. = literal` that starts at the k-th token: the
\* first identifier is assigned the tree of the rest
AssignmentChain(toks, k) ==
    IF toks[k + 1].token_type = "Equal"
    THEN [type |-> "Assignment", identifier |-> toks[k],
          value |-> AssignmentChain(toks, k + 2)]
    ELSE [type |-> "Literal", value |-> toks[k]]

\* C17: when the left-hand side of `=` is a Variable the parser produces an
\* Assignment node whose value is itself parsed as an assignment, so
\* `a = b = 3;` is Assignment(a, Assignment(b, 3)); when it is any other
\* expression the parser records 'Invalid assignment target' with the `=`
\* token.
C17_AssignmentTargetsAndChaining ==
    /\ \A src \in AssignmentChainSources :
          (ParseDone /\ tokens = Tokens(src)) =>
              /\ ExpressionStatementParsed
              /\ parse_result.statements[1].expression
                    = AssignmentChain(tokens, 1)
    /\ \A prefix \in AssignmentPrefixes, target \in NonTargets :
          \A value \in {<<"3">>, <<"y", "=", "3">>} :
              (ParseDone /\ tokens = Tokens(prefix \o target \o <<"=">>
                                              \o value \o <<";">>)) =>
                  /\ parse_result.st = "Err"
                  /\ parse_result.errors
                        = << ParserError(
                               "Invalid assignment target",
                               tokens[Len(prefix) + Len(target) + 1]) >>
    /\ ParseDone =>
          \A k \in 1..Len(errors) :
              errors[k].message = "Invalid assignment target" =>
                  errors[k].token.token_type = "Equal"

\* C17 witness: a parsed chain of three assignments.
C17_Witness ==
    /\ ExpressionStatementParsed
    /\ LET e == parse_result.statements[1].expression
       IN /\ e.type = "Assignment"
          /\ e.value.type = "Assignment"
          /\ e.value.value.type = "Assignment"
          /\ e.value.value.value.type = "Literal"

\* the token types of the n tokens after the cursor i
TypesAhead(toks, i, n) ==
    [k \in 1..n |-> IF i + k <= Len(toks) THEN toks[i + k].token_type
                    ELSE "None"]

\* `identifier :=` is next
InferredDeclarationAt(toks, i) ==
    TypesAhead(toks, i, 2) = <<"Identifier", "VarDec">>

\* `identifier : type =` is next
TypedDeclarationAt(toks, i) ==
    TypesAhead(toks, i, 4) = <<"Identifier", "Colon", "Identifier", "Equal">>

\* the operands and operators of the tokens from the first-th to the one
\* before the cursor j, `=` left out (Unparse does not keep it)
InitializerTokens(toks, first, j) ==
    SelectSeq(Operative(SubSeq(toks, first, j)),
              LAMBDA t : t.token_type # "Equal")

\* the statement a step of Parser::parse added
Added == statements'[Len(statements')]

\* C18: a statement is parsed as a VariableDeclaration exactly when the
\* next tokens are `identifier :=` or `identifier : type =`; the first form
\* records no type, the second the type token, both the initializer and
\* both end at a `;` (without it the parse fails); a statement starting
\* `identifier =` is an expression statement holding an Assignment.
C18_DeclarationRecognisedByLookahead ==
    /\ [][Len(statements') = Len(statements) + 1 =>
            /\ Added.type = "VariableDeclaration"
                  <=> \/ InferredDeclarationAt(tokens, current_index)
                      \/ TypedDeclarationAt(tokens, current_index)
            /\ InferredDeclarationAt(tokens, current_index) =>
                  /\ Added.identifier = tokens[current_index + 1]
                  /\ Added.declared_type = NoLiteral
                  /\ Unparse(Added.initializer)
                        = InitializerTokens(tokens, current_index + 3,
                                            current_index')
                  /\ tokens[current_index'].token_type = "SemiColon"
            /\ TypedDeclarationAt(tokens, current_index) =>
                  /\ Added.identifier = tokens[current_index + 1]
                  /\ Added.declared_type = tokens[current_index + 3]
                  /\ Unparse(Added.initializer)
                        = InitializerTokens(tokens, current_index + 5,
                                            current_index')
                  /\ tokens[current_index'].token_type = "SemiColon"
            /\ TypesAhead(tokens, current_index, 2)
                    = <<"Identifier", "Equal">> =>
                  /\ Added.type = "Expression"
                  /\ Added.expression.type = "Assignment"
         ]_vars
    /\ [](\A src \in { <<"x", ":=", "1">>, <<"y", ":", "z", "=", "2">> } :
            (ParseDone /\ tokens = Tokens(src)) =>
                /\ parse_result.st = "Err"
                /\ parse_result.errors[1].message = "Expected ';'")

\* C18 witness: a parse that found a declaration without a type, one with
\* a type and an assignment statement.
C18_Witness ==
    /\ ParseDone
    /\ parse_result.st = "Ok"
    /\ Len(statements) = 3
    /\ statements[1].type = "VariableDeclaration"
    /\ statements[1].declared_type = NoLiteral
    /\ statements[2].type = "VariableDeclaration"
    /\ statements[2].declared_type.lexeme = "z"
    /\ statements[3].type = "Expression"
    /\ statements[3].expression.type = "Assignment"

\* what parse makes of a source unit
Parsed(src) == parse(Tokens(src))

\* the source `keyword condition { body }` parsed to one loop statement
\* with that condition and that body
LoopParsed(keyword, condition, body) ==
    (ParseDone /\ tokens = Tokens(LoopSource(keyword, condition, body))) =>
        /\ parse_result.st = "Ok"
        /\ Len(parse_result.statements) = 1
        /\ parse_result.statements[1].type \in {"For", "While"}
        /\ Unparse(parse_result.statements[1].condition)
              = Operative(SubSeq(tokens, 2, Len(condition) + 1))
        /\ Len(parse_result.statements[1].statements)
              = Len(Parsed(body).statements)
        /\ \A k \in 1..Len(parse_result.statements[1].statements) :
              parse_result.statements[1].statements[k].type
                  = Parsed(body).statements[k].type

\* as the code has it: the keyword `for`
ForLoopsParsed ==
    \A condition \in LoopConditions, body \in LoopBodies :
        LoopParsed("for", condition, body)

\* C19 (as claimed): a loop statement may be introduced by the keyword
\* `while` or by the keyword `for`; in both cases the parser reads a
\* condition and a brace-delimited body and produces a loop statement with
\* that condition and that body.
C19_LoopIntroducedByWhileOrFor ==
    \A keyword \in LoopKeywords :
        \A condition \in LoopConditions, body \in LoopBodies :
            LoopParsed(keyword, condition, body)

-----------------------------------------------------------------------------
(***************************************************************************)
(* Claims about the interpreter, over the log of the last interpret call   *)
(***************************************************************************)

Events(kind) == {k \in 1..Len(log) : log[k].ev = kind}

\* the evaluation of an expression in environment d of a chain
ValueOfIn(chain, d, expr) ==
    Interpreter_expression(
        [envs |-> chain, borrows |-> [j \in 1..Len(chain) |-> 0],
         st |-> "ok", value |-> Empty, message |-> "", log |-> <<>>],
        d, expr)

BoundInChain(chain, d, name) == \E j \in 1..d : name \in DOMAIN chain[j]

\* the nearest environment of the chain, from d upward, that binds name
Nearest(chain, d, name) ==
    CHOOSE j \in 1..d :
        /\ name \in DOMAIN chain[j]
        /\ \A i \in (j + 1)..d : name \notin DOMAIN chain[i]

\* C1: an assignment `name = expr` whose name is bound in the chain of the
\* environment it appears in overwrites exactly the nearest binding of
\* name with the value of expr in that environment and changes nothing
\* else (beyond what evaluating expr changes); when name is bound nowhere
\* it is a runtime error and no environment changes.
C1_AssignOverwritesNearestBinding ==
    \A k \in Events("assign") :
        LET a == log[k]
            name == a.assignment.identifier.lexeme
            ref == ValueOfIn(a.before, a.d, a.assignment.value)
        IN IF BoundInChain(a.before, a.d, name)
           THEN ref.st = "ok" =>
                  /\ a.st = "ok"
                  /\ a.after = [ref.envs EXCEPT
                                  ![Nearest(a.before, a.d, name)][name] =
                                      ref.value]
           ELSE a.st = "err" /\ a.after = a.before

RECURSIVE HasAssignment(_)
\* whether an expression contains an Assignment expression
HasAssignment(expr) ==
    CASE expr.type = "Assignment" -> TRUE
      [] expr.type \in {"Binary", "Logical"} ->
            HasAssignment(expr.left) \/ HasAssignment(expr.right)
      [] expr.type = "Unary" -> HasAssignment(expr.left)
      [] expr.type = "Grouping" -> HasAssignment(expr.expression)
      [] OTHER -> FALSE

OnlyDeclarations(stmts) ==
    \A i \in 1..Len(stmts) : stmts[i].type = "VariableDeclaration"

NoAssigningInitializer(stmts) ==
    \A i \in 1..Len(stmts) : ~HasAssignment(stmts[i].initializer)

\* every declaration writes its binding into the environment it is
\* evaluated in, and to no enclosing one
DeclarationsWriteOwnEnvironment ==
    \A k \in Events("declare") :
        k > 1 /\ log[k - 1].ev = "write" /\ log[k - 1].name = log[k].name
            => log[k - 1].d = log[k].d

\* C2 as stated: a declaration inside a block never overwrites an outer
\* binding, and executing a Block whose statements only declare variables
\* leaves every binding of the enclosing environments unchanged.
C2_DeclarationBlockKeepsOuterBindings ==
    /\ DeclarationsWriteOwnEnvironment
    /\ \A k \in Events("block") :
          OnlyDeclarations(log[k].statements)
              => log[k].after = log[k].before

\* C2, amended: a declaration inside a block never overwrites an outer
\* binding, and executing a Block whose statements only declare variables
\* with initializers that contain no assignment leaves every binding of
\* the enclosing environments unchanged.
C2_PlainDeclarationBlockKeepsOuterBindings ==
    /\ DeclarationsWriteOwnEnvironment
    /\ \A k \in Events("block") :
          /\ OnlyDeclarations(log[k].statements)
          /\ NoAssigningInitializer(log[k].statements)
          => log[k].after = log[k].before

\* a block of one plain declaration of a name bound outside has run, and
\* its child environment held the new binding
C2_Witness ==
    \E k \in Events("block") :
        /\ Len(log[k].statements) = 1
        /\ OnlyDeclarations(log[k].statements)
        /\ NoAssigningInitializer(log[k].statements)
        /\ log[k].st = "ok"
        /\ LET name == log[k].statements[1].identifier.lexeme
           IN /\ name \in DOMAIN log[k].before[log[k].d]
              /\ name \in DOMAIN log[k].inner
              /\ log[k].inner[name] # log[k].before[log[k].d][name]

\* C3: a declaration (whose initializer evaluates) of a name bound in the
\* very environment it is evaluated in is the runtime error "already
\* declared in this scope"; otherwise, also when an ancestor binds the
\* name, it succeeds and adds the name to that environment only.
C3_RedeclarationErrorShadowingOk ==
    \A k \in Events("declare") :
        LET e == log[k]
        IN e.initialized =>
             IF e.name \in DOMAIN e.before[e.d]
             THEN /\ e.st = "err"
                  /\ e.message = "Variable already declared in this scope"
             ELSE /\ e.st = "ok"
                  /\ DOMAIN e.after[e.d] = DOMAIN e.before[e.d] \cup {e.name}
                  /\ \A j \in 1..(e.d - 1) :
                        DOMAIN e.after[j] = DOMAIN e.before[j]

\* one evaluation both shadowed an ancestor's name with success and
\* failed to redeclare a name of its own environment
C3_Witness ==
    /\ \E k \in Events("declare") :
          /\ log[k].d > 1
          /\ log[k].name \notin DOMAIN log[k].before[log[k].d]
          /\ log[k].name \in DOMAIN log[k].before[log[k].d - 1]
          /\ log[k].st = "ok"
    /\ \E k \in Events("declare") :
          /\ log[k].initialized
          /\ log[k].name \in DOMAIN log[k].before[log[k].d]
          /\ log[k].st = "err"

\* whether the log holds an evaluation of expr after index from
EvaluatedAfter(from, expr) ==
    \E j \in Events("expression") : j > from /\ log[j].expression = expr

\* the right operand of `a && b` is evaluated only if a evaluated to true,
\* that of `a || b` only if a evaluated to false
ShortCircuit ==
    \A k \in Events("logical") :
        LET e == log[k]
        IN EvaluatedAfter(e.from, e.expression.right)
             <=> IF e.expression.operator.token_type = "And"
                 THEN e.left ELSE ~e.left

ShortCircuitExample ==
    parse(Tokens(<<"false", "&&", "(", "1", "/", "0", "==", "0", ")",
                   ";">>)).statements

\* C4: logical operators short-circuit, and `false && (1/0 == 0);`
\* evaluates to the Boolean false without any error and without
\* evaluating the division.
C4_ShortCircuitAndExample ==
    /\ ShortCircuit
    /\ program = ShortCircuitExample
         => /\ outcome = [st |-> "Ok", value |-> BooleanLiteral(FALSE)]
            /\ \A j \in Events("expression") :
                  log[j].expression.type # "Binary"

\* C5: no entry makes the interpreter abort with a panic.
C5_NoPanic == outcome.st # "Panic"

Activity == {"evaluate", "expression", "write", "error", "panic"}

\* C6: interpret is fail-fast: once a runtime error is raised no statement
\* or expression is evaluated and no binding is written any more, and the
\* error is what interpret returns.
C6_FailFast ==
    \A k \in Events("error") :
        /\ \A j \in (k + 1)..Len(log) : log[j].ev \notin Activity
        /\ outcome = [st |-> "Err", message |-> log[k].message]

\* a two-statement entry failed in its first statement, after that
\* statement had written a binding
C6_Witness ==
    /\ Len(program) = 2
    /\ outcome.st = "Err"
    /\ Cardinality({k \in Events("evaluate") : log[k].d = 1}) = 1
    /\ Events("write") # {}

-----------------------------------------------------------------------------
(***************************************************************************)
(* Claims about the scanner                                                *)
(***************************************************************************)

\* the 1-based line of the character at index start (0-based) of src
LineOf(src, start) == 1 + Cardinality({j \in 1..start : src[j] = "\n"})

\* the 1-based column of the character at index start (0-based) of src
ColumnOf(src, start) ==
    LET newlines == {j \in 1..start : src[j] = "\n"}
    IN IF newlines = {} THEN start + 1
       ELSE start + 1 - (CHOOSE j \in newlines : \A n \in newlines : n <= j)

\* C9: every token (but Eof) of a successful scan carries the 1-based line
\* and the 1-based column of its first character.
C9_TokensCarryLineAndColumnOfFirstCharacter ==
    scan_result.st = "Ok" =>
        \A k \in 1..Len(scan_tokens) :
            scan_tokens[k].token_type # "Eof" =>
                /\ scan_tokens[k].line = LineOf(source, token_starts[k])
                /\ scan_tokens[k].position
                       = ColumnOf(source, token_starts[k])

ScanDone == scan_result # Running

\* no lexical error
NoLexicalError == [message |-> "", at |-> 0]

RECURSIVE FirstLexicalError(_, _, _)
\* The first lexical error of a source over ScannerAlphabet, read from its
\* k-th character on, and the index of the offending character (one past
\* the end for a string that is not closed).  mode tells what the
\* characters before k left open: nothing ("out"), a string ("string"), an
\* identifier ("identifier"), the digits of a number before ("number") or
\* after ("fraction") its dot.
FirstLexicalError(src, k, mode) ==
    IF k > Len(src)
    THEN IF mode = "string"
         THEN [message |-> "Unterminated string", at |-> k]
         ELSE NoLexicalError
    ELSE CASE mode = "string" ->
                FirstLexicalError(src, k + 1,
                                  IF src[k] = "\"" THEN "out" ELSE "string")
           [] mode = "identifier" /\ is_ascii_alphanumeric(src[k]) ->
                FirstLexicalError(src, k + 1, "identifier")
           [] mode \in {"number", "fraction"} /\ is_ascii_digit(src[k]) ->
                FirstLexicalError(src, k + 1, mode)
           [] mode = "number" /\ src[k] = "." ->
                IF k < Len(src) /\ is_ascii_digit(src[k + 1])
                THEN FirstLexicalError(src, k + 1, "fraction")
                ELSE [message |-> "Invalid number", at |-> k + 1]
           [] OTHER ->
                CASE src[k] = "\"" -> FirstLexicalError(src, k + 1, "string")
                  [] src[k] \in Letters ->
                        FirstLexicalError(src, k + 1, "identifier")
                  [] is_ascii_digit(src[k]) ->
                        FirstLexicalError(src, k + 1, "number")
                  [] src[k] \in {" ", "\n", ";", "=", "."} ->
                        FirstLexicalError(src, k + 1, "out")
                  [] OTHER -> [message |-> "Unknown token", at |-> k]

OverScannerAlphabet(src) == \A k \in 1..Len(src) : src[k] \in ScannerAlphabet

\* an Err result carries the error alone
ErrorAlone ==
    scan_result.st = "Err" => DOMAIN scan_result = {"st", "error"}

\* nothing is scanned after an error
HaltsAtError == [][scan_result.st = "Err" => UNCHANGED vars]_vars

\* the call returns the first lexical error of the source
FirstErrorReturned ==
    (ScanDone /\ OverScannerAlphabet(source)) =>
        LET first == FirstLexicalError(source, 1, "out")
        IN IF first = NoLexicalError
           THEN scan_result.st # "Err"
           ELSE /\ scan_result.st = "Err"
                /\ scan_result.error.message = first.message

\* the cursor stopped at the offending character
NothingReadAfterTheError ==
    (scan_result.st = "Err" /\ OverScannerAlphabet(source)) =>
        scan_current_index
            <= FirstLexicalError(source, 1, "out").at

\* the error carries the line where it was found and, for an unknown
\* character, the column of that character
ErrorLocated ==
    (scan_result.st = "Err" /\ OverScannerAlphabet(source)) =>
        LET at == FirstLexicalError(source, 1, "out").at
        IN /\ scan_result.error.line = LineOf(source, at - 1)
           /\ scan_result.error.message = "Unknown token" =>
                 scan_result.error.position = ColumnOf(source, at - 1)

\* C12 (as claimed): Scanner::scan halts at the first lexical error of the
\* source in source order (unknown character, unterminated string,
\* malformed number) and returns only that error, with the line and column
\* of the offending character; it returns no token sequence and reads no
\* character after the error.
C12_ScanStopsAtFirstLexicalError ==
    /\ ErrorAlone
    /\ FirstErrorReturned
    /\ NothingReadAfterTheError
    /\ ErrorLocated

\* the operators of two characters and their token types
TwoCharacterOperators ==
    { [text |-> <<"=", "=">>, token_type |-> "DoubleEqual"],
      [text |-> <<"!", "=">>, token_type |-> "BangEqual"],
      [text |-> <<">", "=">>, token_type |-> "GreaterEqual"],
      [text |-> <<"<", "=">>, token_type |-> "LessEqual"],
      [text |-> <<"&", "&">>, token_type |-> "And"],
      [text |-> <<"|", "|">>, token_type |-> "Or"],
      [text |-> <<"<", "<">>, token_type |-> "LeftShift"],
      [text |-> <<">", ">">>, token_type |-> "RightShift"],
      [text |-> <<":", "=">>, token_type |-> "VarDec"] }

\* the token types of their first characters alone
SingleCharacterOperators ==
    { [text |-> <<"=">>, token_type |-> "Equal"],
      [text |-> <<"!">>, token_type |-> "Bang"],
      [text |-> <<">">>, token_type |-> "Greater"],
      [text |-> <<"<">>, token_type |-> "Less"],
      [text |-> <<"&">>, token_type |-> "BitwiseAnd"],
      [text |-> <<"|">>, token_type |-> "BitwiseOr"],
      [text |-> <<":">>, token_type |-> "Colon"] }

\* the operator that starts at index start (0-based) of src: the operator
\* of two characters when both are there, else the single character
OperatorAt(src, start) ==
    IF \E op \in TwoCharacterOperators :
           op.text = SkipTake(src, start, 2)
    THEN CHOOSE op \in TwoCharacterOperators :
           op.text = SkipTake(src, start, 2)
    ELSE CHOOSE op \in SingleCharacterOperators :
           op.text = SkipTake(src, start, 1)

StartsOperator(src, start) ==
    \E op \in SingleCharacterOperators : op.text = SkipTake(src, start, 1)

\* every token that starts at an operator character is the operator found
\* there, with the characters of that operator and no other as its lexeme
OperatorTokensAreGreedy ==
    \A k \in 1..Len(scan_tokens) :
        (scan_tokens[k].token_type # "Eof"
            /\ StartsOperator(source, token_starts[k])) =>
            /\ scan_tokens[k].token_type
                  = OperatorAt(source, token_starts[k]).token_type
            /\ scan_tokens[k].lexeme = OperatorAt(source, token_starts[k]).text

\* a source that is one operator is scanned to that operator's token
OperatorsAreScanned ==
    \A op \in TwoCharacterOperators \cup SingleCharacterOperators :
        (ScanDone /\ source = op.text) =>
            /\ scan_result.st = "Ok"
            /\ Len(scan_result.tokens) = 2
            /\ scan_result.tokens[1].token_type = op.token_type

\* C13 (as claimed): each of `==`, `!=`, `>=`, `<=`, `&&`, `||`, `<<`, `>>`,
\* `:=` is scanned as one token when its two characters are adjacent; when
\* the second character does not match, the token is the single-character
\* one and the following character is not consumed.
C13_TwoCharacterOperatorsAreGreedy ==
    /\ OperatorTokensAreGreedy
    /\ OperatorsAreScanned

\* the letters and digits
AlphanumericCharacters == Letters \cup IntegerLexemes

\* the letters, the digits and the underscore
WordCharacters == AlphanumericCharacters \cup {"_"}

RECURSIVE WordRun(_, _, _)
\* the longest run of characters of the set `characters` that starts at
\* index start (0-based) of src
WordRun(src, start, characters) ==
    IF start < Len(src) /\ src[start + 1] \in characters
    THEN <<src[start + 1]>> \o WordRun(src, start + 1, characters)
    ELSE <<>>

\* the token type of a run: the keyword's, else Identifier
WordType(run) ==
    IF \E keyword \in KEYWORDS : keyword.text = run
    THEN (CHOOSE keyword \in KEYWORDS : keyword.text = run).token_type
    ELSE "Identifier"

\* every token that starts at a letter holds the longest run of characters
\* of the set `characters` from there, as a keyword or an Identifier
WordTokensAreRunsOf(characters) ==
    \A k \in 1..Len(scan_tokens) :
        (scan_tokens[k].token_type # "Eof"
            /\ CharAt(source, token_starts[k]) \in Letters) =>
            LET run == WordRun(source, token_starts[k], characters)
            IN /\ scan_tokens[k].lexeme = run
               /\ scan_tokens[k].token_type = WordType(run)

\* as the code has it: runs of letters and digits
WordTokensAreAlphanumericRuns == WordTokensAreRunsOf(AlphanumericCharacters)

\* C14 (as claimed): an identifier is the maximal run of alphanumeric or
\* underscore characters that starts at an ASCII letter; a run equal to an
\* entry of the keyword table yields that keyword token; `my_variable` is
\* scanned as one Identifier token with the lexeme `my_variable`.
C14_IdentifierIsMaximalWordRun ==
    /\ WordTokensAreRunsOf(WordCharacters)
    /\ (ScanDone /\ source = <<"m", "y", "_", "v", "a", "r", "i", "a", "b",
                               "l", "e">>) =>
          /\ scan_result.st = "Ok"
          /\ Len(scan_result.tokens) = 2
          /\ scan_result.tokens[1].token_type = "Identifier"
          /\ scan_result.tokens[1].lexeme = source

\* the token types Parser::primary makes a Literal expression of
LiteralTokenTypes == {"Integer", "Float", "String", "True", "False"}

\* the evaluation of the Literal expression built from a token
LiteralEvaluation(token) ==
    Interpreter_literal(NewEvaluation(EmptyEnvironment),
                        [type |-> "Literal", value |-> token])

\* the tokens of numbers and strings carry their literal value
NumberAndStringTokensCarryLiteral ==
    \A k \in 1..Len(scan_tokens) :
        scan_tokens[k].token_type \in {"Integer", "Float", "String"} =>
            /\ scan_tokens[k].literal # NoLiteral
            /\ LiteralEvaluation(scan_tokens[k]).st = "ok"

\* C15 (as claimed): every literal token the scanner emits (Integer, Float,
\* String, `true`, `false`) carries its literal value, so the evaluation of
\* a Literal expression built from a scanned token yields that value and
\* never the error 'Literal expression value is None'; `true;` evaluates
\* to the Boolean true.
C15_LiteralTokensCarryLiteral ==
    /\ \A k \in 1..Len(scan_tokens) :
          scan_tokens[k].token_type \in LiteralTokenTypes =>
              /\ scan_tokens[k].literal # NoLiteral
              /\ LiteralEvaluation(scan_tokens[k]).st = "ok"
    /\ (ScanDone /\ source = <<"t", "r", "u", "e", ";">>) =>
          /\ scan_result.st = "Ok"
          /\ LiteralEvaluation(scan_result.tokens[1]).st = "ok"
          /\ LiteralEvaluation(scan_result.tokens[1]).value
                = BooleanLiteral(TRUE)

-----------------------------------------------------------------------------
(***************************************************************************)
(* Further claims about the interpreter                                    *)
(***************************************************************************)

Max(a, b) == IF a >= b THEN a ELSE b

RECURSIVE StaticDepth(_)
\* the deepest nesting of blocks (of Block, If and loop statements) in a
\* list of statements
StaticDepth(stmts) ==
    IF stmts = <<>> THEN 0
    ELSE Max(CASE Head(stmts).type \in {"Block", "For", "While"} ->
                    1 + StaticDepth(Head(stmts).statements)
               [] Head(stmts).type = "If" ->
                    1 + Max(StaticDepth(Head(stmts).statements),
                            IF Head(stmts).else_statements.none THEN 0
                            ELSE StaticDepth(
                                   Head(stmts).else_statements.statements))
               [] OTHER -> 0,
             StaticDepth(Tail(stmts)))

\* the statements of a list are declarations of different names and
\* expression statements
DeclaresEachNameOnce(stmts) ==
    /\ \A k \in 1..Len(stmts) :
          stmts[k].type \in {"VariableDeclaration", "Expression"}
    /\ \A j, k \in 1..Len(stmts) :
          (j < k /\ stmts[j].type = "VariableDeclaration"
                 /\ stmts[k].type = "VariableDeclaration") =>
              stmts[j].identifier.lexeme # stmts[k].identifier.lexeme

\* the entry is one loop statement whose body declares each name once
LoopDeclaringEachNameOnce ==
    /\ Len(program) = 1
    /\ program[1].type \in {"For", "While"}
    /\ DeclaresEachNameOnce(program[1].statements)

\* C16: each iteration of a loop body runs in a fresh child Environment of
\* the loop's Environment, discarded before the next iteration: the chain
\* of Environments is never deeper than the static nesting of the program,
\* whatever the number of iterations, a block leaves the chain as long as
\* it found it, and a declaration in the body of a loop never raises
\* 'already declared' on a later iteration.
C16_LoopBodyRunsInFreshEnvironment ==
    /\ \A k \in DOMAIN log :
          "d" \in DOMAIN log[k] => log[k].d <= 1 + StaticDepth(program)
    /\ \A k \in Events("block") :
          /\ Len(log[k].before) = log[k].d
          /\ Len(log[k].after) = log[k].d
    /\ LoopDeclaringEachNameOnce =>
          \A k \in Events("declare") :
              /\ log[k].d = 2
              /\ log[k].name \notin DOMAIN log[k].before[2]
              /\ log[k].message # "Variable already declared in this scope"

\* C16 witness: a loop whose body declares a variable ran that declaration
\* in two iterations and ended.
C16_Witness ==
    /\ LoopDeclaringEachNameOnce
    /\ outcome.st = "Ok"
    /\ Cardinality({k \in Events("declare") : log[k].st = "ok"}) >= 2

\* the kind of the value of an operand of EqualityOperands
OperandKind(operand) ==
    CASE operand \in {<<"1">>, <<"1.0">>, <<"1.5">>} -> "Number"
      [] operand \in {<<"\"1\"">>, <<"\"2\"">>} -> "String"
      [] operand \in {<<"(", "1", "==", "1", ")">>,
                      <<"(", "1", "==", "2", ")">>} -> "Boolean"
      [] OTHER -> "Empty"

\* operands of one kind have the same value: the Integer 1 and the Float
\* 1.0 are the same number, every other operand has a value of its own
SameValue(a, b) ==
    \/ a = b
    \/ {a, b} = {<<"1">>, <<"1.0">>}

\* the statements `a == b ;` and `a != b ;`, parsed
EqualityCases ==
    { [a |-> a, b |-> b, op |-> op,
       statements |-> Parsed(a \o <<op>> \o b \o <<";">>).statements] :
        a \in EqualityOperands, b \in EqualityOperands,
        op \in {"==", "!="} }

\* C20: `==` and `!=` yield a Boolean only when both operands are literals
\* of the same kind: two Numbers are compared by numeric value whether
\* Integer or Float, two Strings and two Booleans by value; for operands
\* of different kinds, as in `1 == "1";`, and for an operand that is no
\* literal, the result is a runtime error and never the Boolean false.
C20_EqualityNeedsSameKind ==
    \A c \in EqualityCases :
        (program = c.statements /\ outcome # Running) =>
            IF OperandKind(c.a) = OperandKind(c.b)
                   /\ OperandKind(c.a) # "Empty"
            THEN outcome = [st |-> "Ok",
                            value |-> BooleanLiteral(
                                SameValue(c.a, c.b) = (c.op = "=="))]
            ELSE outcome.st = "Err"

\* C20 witness: the Integer 1 and the Float 1.0 compared equal.
C20_Witness ==
    /\ program = Parsed(<<"1", "==", "1.0", ";">>).statements
    /\ outcome = [st |-> "Ok", value |-> BooleanLiteral(TRUE)]


-----------------------------------------------------------------------------
(***************************************************************************)
(* Further claims about the parser                                         *)
(***************************************************************************)

RECURSIVE SyncPoint(_, _)
\* the index of the first token from index k on that is a `;`, an `if`, a
\* `for` or Eof
SyncPoint(toks, k) ==
    IF toks[k + 1].token_type \in {"SemiColon", "If", "For", "Eof"}
    THEN k
    ELSE SyncPoint(toks, k + 1)

\* the cursor at which the statement that starts at the cursor fails
FailedAt == Parser_statement(tokens, current_index).i

\* a step of parse that records an error and recovers
Recovers == Len(errors') > Len(errors)

\* recovery that meets a `;` (or Eof) before any keyword resumes just after
\* the `;` (at Eof)
RecoveryResumesAfterSemiColon ==
    [][Recovers =>
         LET k == SyncPoint(tokens, FailedAt)
         IN CASE tokens[k + 1].token_type = "SemiColon"
                   -> current_index' = k + 1
              [] tokens[k + 1].token_type = "Eof" -> current_index' = k
              [] OTHER -> TRUE]_vars

\* C22: recovery stops discarding at the start of a new statement: at a
\* leading `if` or `for`, which stays unconsumed so that the statement it
\* begins is parsed as an If or loop statement, or just after a `;`
C22_RecoveryResumesAtStatementStart ==
    [][Recovers =>
         LET k == SyncPoint(tokens, FailedAt)
         IN CASE tokens[k + 1].token_type = "SemiColon"
                   -> current_index' = k + 1
              [] tokens[k + 1].token_type \in {"If", "For"}
                   -> /\ current_index' = k
                      /\ LET resumed == Parser_statement(tokens, k)
                         IN resumed.st = "ok"
                                => resumed.v.type \in {"If", "For"}
              [] OTHER -> current_index' = k]_vars

\* the index of the first Eof token
FirstEof(toks) ==
    CHOOSE k \in 0..(Len(toks) - 1) :
        /\ toks[k + 1].token_type = "Eof"
        /\ \A j \in 0..(k - 1) : toks[j + 1].token_type # "Eof"

\* the values the cursor takes during a step of parse: advance() is the
\* only method that moves the cursor, by one, so they are the values from
\* the cursor before the step to the cursor after it
CursorsOfStep == current_index..current_index'

\* the values of the cursor at which previous() is called during a step:
\* every call follows an advance() (in advance itself, consumed_one_of,
\* consume_and_expect and sync)
PreviousCalledAt == {Parser_advance(tokens, c) : c \in CursorsOfStep}

\* C25: throughout parse the cursor is at or below the index of the first
\* Eof token, tokens[current_index] is in range, and previous() is only
\* called with current_index >= 1
C25_CursorStaysInRange ==
    /\ [](/\ current_index <= FirstEof(tokens)
          /\ current_index + 1 <= Len(tokens))
    /\ [][current_index' # current_index =>
            /\ current_index' > current_index
            /\ \A c \in CursorsOfStep : c <= FirstEof(tokens)
            /\ \A c \in PreviousCalledAt : c >= 1]_vars

\* a statement has failed at the first Eof token of a vector that holds
\* more tokens after it, and parse has returned with the cursor on that Eof
C25_Witness ==
    /\ parse_result.st = "Err"
    /\ FirstEof(tokens) + 1 < Len(tokens)
    /\ current_index = FirstEof(tokens)
    /\ errors[Len(errors)].token = tokens[FirstEof(tokens)]

\* every statement that parses, at whichever token before the first Eof
\* it starts (the iterations of the loops of parse and of block), leaves
\* the cursor further than it found it
StatementsAdvance ==
    \A i \in 0..(FirstEof(tokens) - 1) :
        LET r == Parser_statement(tokens, i)
        IN r.st = "ok" => r.i > i

\* C26: parse terminates on every token vector that ends with Eof: every
\* iteration of its loop, the statement parsed or failed and followed by
\* sync, and every iteration of the loop of block, strictly increases the
\* cursor, and parse returns
C26_ParseTerminates ==
    /\ StatementsAdvance
    /\ [][(statements' # statements \/ errors' # errors)
              => current_index' > current_index]_vars
    /\ <>(parse_result # Running)

\* parse has returned after an iteration that failed and recovered and an
\* iteration that parsed a block of two statements
C26_Witness ==
    /\ parse_result # Running
    /\ errors # <<>>
    /\ \E k \in 1..Len(statements) :
          /\ statements[k].type = "Block"
          /\ Len(statements[k].statements) >= 1

-----------------------------------------------------------------------------
(***************************************************************************)
(* Claims about Source                                                     *)
(***************************************************************************)

RECURSIVE Concat(_)
Concat(ss) == IF ss = <<>> THEN <<>> ELSE Head(ss) \o Concat(Tail(ss))

\* the characters that next() had yielded when pop_lexeme was last called
\* (lexeme_start is the value of current_index at that call)
ConsumedAtLastPop ==
    SubSeq(source_text, 1,
           IF lexeme_start <= Len(source_text) THEN lexeme_start
           ELSE Len(source_text))

\* a call of pop_lexeme made strictly inside an ASCII text, after at least
\* one next() since the previous call, returns what was consumed in between
PopInsideTextIsExact ==
    [][(/\ popped_lexemes' # popped_lexemes
        /\ lexeme_start < source_current_index
        /\ source_current_index < SourceLen(source_text)
        /\ SourceLen(source_text) = Len(source_text))
       => popped_lexemes' =
              Append(popped_lexemes,
                     SubSeq(source_text, lexeme_start + 1,
                            source_current_index))]_vars

\* C21: after any sequence of next() and pop_lexeme calls, every pop_lexeme
\* has returned, and the lexemes returned so far are contiguous and
\* non-overlapping: they concatenate to the prefix of the text consumed
\* when pop_lexeme was last called
C21_PopLexemeReturnsConsumedSubstring ==
    /\ source_status = "ok"
    /\ Concat(popped_lexemes) = ConsumedAtLastPop

-----------------------------------------------------------------------------
(***************************************************************************)
(* Claims about assignments, declarations and scopes                       *)
(***************************************************************************)

\* the log positions at which Interpreter::expression is called for an
\* Assignment whose walk finds the name: the next event is the call of
\* Interpreter::expression for the right-hand side
AssignmentsWithValue ==
    {k \in Events("expression") :
        /\ log[k].expression.type = "Assignment"
        /\ k < Len(log)
        /\ log[k + 1].ev = "expression"}

AssignmentExample ==
    Parsed(<<"x", ":=", "1", ";",
             "{", "y", ":=", "5", ";", "x", "=", "y", ";", "}">>).statements

\* C23: the right-hand side of an assignment is evaluated in the
\* environment where the assignment appears, also when the target is
\* declared in an enclosing scope; `x := 1; { y := 5; x = y; }` run in an
\* empty environment sets the outer x to 5 and raises no error
C23_AssignValueEvaluatedAtAssignmentSite ==
    /\ \A k \in AssignmentsWithValue : log[k + 1].d = log[k].d
    /\ (program = AssignmentExample /\ entries = 1) =>
          /\ outcome.st = "Ok"
          /\ environment["x"] = IntegerLiteral(5)

\* the declarations that failed with "already declared in this scope"
FailedRedeclarations ==
    {k \in Events("declare") :
        /\ log[k].st = "err"
        /\ log[k].initialized
        /\ log[k].message = "Variable already declared in this scope"}

\* a failed redeclaration adds no name to any environment
FailedRedeclarationAddsNoName ==
    \A k \in FailedRedeclarations :
        \A j \in 1..log[k].d :
            DOMAIN log[k].after[j] = DOMAIN log[k].before[j]

\* C24: a declaration that fails with "already declared in this scope"
\* leaves the environment unchanged: the existing binding of the name keeps
\* the value it had before the failed declaration
C24_FailedRedeclarationKeepsBinding ==
    \A k \in FailedRedeclarations :
        log[k].after[log[k].d][log[k].name]
            = log[k].before[log[k].d][log[k].name]

C28_BlockKeepsOuterNames ==
    \A k \in Events("block") :
        /\ Len(log[k].after) = Len(log[k].before)
        /\ \A j \in 1..Len(log[k].before) :
              DOMAIN log[k].after[j] = DOMAIN log[k].before[j]

\* a block has declared a name in its child environment and replaced the
\* value of a name of an enclosing environment
C28_Witness ==
    \E k \in Events("block") :
        /\ log[k].st = "ok"
        /\ DOMAIN log[k].inner # {}
        /\ log[k].after # log[k].before
        /\ \A name \in DOMAIN log[k].inner :
              name \notin DOMAIN log[k].before[log[k].d]

\* the last body that ended before the log position k
LastBlockBefore(k) ==
    CHOOSE b \in Events("block") :
        b < k /\ \A c \in Events("block") : c < k => c <= b

LoopExample ==
    Parsed(<<"i", ":=", "0", ";",
             "for", "i", "<", "3", "{", "i", "=", "i", "+", "1", ";",
             "}">>).statements

\* the evaluations of the condition of the loop of LoopExample
ExampleConditions ==
    {k \in Events("condition") : log[k].statement = LoopExample[2]}

\* C29: the condition of a loop is re-evaluated in the enclosing
\* environment before every iteration and sees what the body of the
\* previous iteration has assigned there; for `i := 0;` followed by the
\* loop on `i < 3` with the body `i = i + 1;`, run in an empty environment,
\* the body runs exactly three times, the loop ends with the value Empty
\* and i is 3 afterwards
C29_ConditionSeesAssignmentsOfBody ==
    /\ \A k \in Events("condition") :
          /\ log[k].d = Len(log[k].before)
          /\ log[k].iterations > 0 =>
                LET b == LastBlockBefore(k)
                IN /\ log[b].statements = log[k].statement.statements
                   /\ log[b].d = log[k].d
                   /\ log[b].after = log[k].before
    /\ (program = LoopExample /\ entries = 1) =>
          /\ outcome = [st |-> "Ok", value |-> Empty]
          /\ environment["i"] = IntegerLiteral(3)
          /\ Cardinality(ExampleConditions) = 4
          /\ Cardinality({b \in Events("block") :
                             log[b].statements = LoopExample[2].statements})
                = 3

\* the example has run in an empty environment: its condition was true
\* three times, with i equal to 0, 1 and 2, and false the fourth time
C29_Witness ==
    /\ program = LoopExample
    /\ entries = 1
    /\ environment["i"] = IntegerLiteral(3)
    /\ {log[k].before[1]["i"].n : k \in ExampleConditions} = {0, 1, 2, 3}
    /\ {log[k].value.b : k \in ExampleConditions} = {TRUE, FALSE}

-----------------------------------------------------------------------------
(***************************************************************************)
(* A further claim about the scanner                                       *)
(***************************************************************************)

\* on a source of one-byte characters no character is read past the end
AsciiReadsInRange ==
    SourceLen(source) = Len(source) => scan_result.st # "Panic"

\* C30: whenever the scanner reads the character at current_index the
\* index is smaller than the number of characters of the source, for every
\* input, multi-byte characters included (no chars().nth() is None), and
\* the end-of-input test agrees with the character lookup on where the
\* input ends
C30_CharacterReadsInRange ==
    /\ scan_result.st # "Panic"
    /\ eof(source, scan_current_index) <=> scan_current_index >= Len(source)

====
